---- MODULE Spec2Model ----
(***************************************************************************)
(* A model of the celebrity-mention scraper (src/scraper): the search      *)
(* client with its retry wrapper and key rotation, the concurrent page     *)
(* fetcher, the mention store and the batch pipeline that drives them.     *)
(*                                                                         *)
(* Several specifications share the module.  Each moves only the variables *)
(* of its own component and leaves the others at their initial value:      *)
(*   SpecSearch  one GoogleSearcher object and its callers                 *)
(*   SpecFetch   one fetchAll call (async Crawl4AIScraper or WebScraper)   *)
(*   SpecStore   DatabaseHandler.batch_insert_mentions on arbitrary input  *)
(*   Spec        scrape_all_celebrities, run after run, on one store       *)
(* and one specification for each further component, defined at the end.   *)
(***************************************************************************)
EXTENDS Integers, Sequences, FiniteSets, TLC

VARIABLES
  \* ---- GoogleSearcher and the exponential_backoff wrapper around search_google
  numKeys,            \* len(self.api_keys), fixed by the configuration
  jsonErrRetryable,   \* whether the installed requests raises its JSON error as a RequestException
  current_key_index,  \* self.current_key_index
  sPc,                \* "idle" | "attempt" | "returned" | "raised" | "handled"
  sAttempt,           \* the wrapper's loop variable `attempt`
  sTrace,             \* per invocation of the wrapped function in this logical call:
                      \* what its two page requests met (p1, p2) and how it ended
                      \* (res: "ok" or the kind of the exception it raised)
  sStartIndex,        \* current_key_index when the logical call began
  sAttemptIndex,      \* current_key_index when the last attempt began
  sSleeps,            \* the attempts after which the wrapper slept
  sResult,            \* what the wrapper handed to its caller
  sCalls,             \* logical calls made on this searcher
  selected,           \* per credential pair: calls whose first attempt read that pair
  wResult,            \* what the caller (scrape_celebrity_worker) made of the search
  \* ---- one fetchAll call: Crawl4AIScraper.scrape_urls_async or WebScraper.scrape_urls
  fMode,              \* "async" (Crawl4AIScraper) | "sync" (WebScraper)
  fUrls,              \* the input list `urls`
  fPc,                \* "fetching" | "returned"
  fTask,              \* per position of fUrls: the fetch of that URL
  fSucc,              \* successful_results / results
  fFail,              \* failed_urls
  \* ---- the store (MySQL behind DatabaseHandler)
  celebrity_mentions, \* the table: per (celebrity_id, original_url), how many committed rows
  iPc,                \* a direct batch_insert_mentions call: "idle" | "rows"
  iTxn,               \* the table as the call's open transaction sees it
  iCount,             \* the call's counters: rows gone through the loop, inserted, skipped
  iFirst,             \* the first mention of the call's list
  lastRow,            \* the row that went through the loop last
  lastInsert,         \* the last finished call: what it was given and what it returned
  prevInsert,         \* the finished call before it
  scraping_jobs,      \* the table: job_id |-> [status, mentions_found, urls_processed, end_time]
  \* ---- what the pipeline meets, the same in every run
  roster,             \* the rows of table celebrities, ordered by celebrity_id
  batchSize,          \* CELEBRITIES_PER_BATCH, scaled to the roster: at most its length
  searchEnv,          \* per entity: what every request of its search meets
  fetchEnv,           \* per URL: what every crawl of it meets
  \* ---- scrape_all_celebrities, run after run
  run,                \* runs started so far
  rPc,                \* "idle" | "create_job" | "batch" | "final" | "returned"
  celebrities,        \* the roster as this run read it
  job_id,             \* this run's job (0: none created)
  batches,            \* split_into_batches(celebrities, CELEBRITIES_PER_BATCH)
  batch_idx,          \* the batch being processed (1-based, as in enumerate(batches, 1))
  total_mentions,     \* the run's accumulators
  total_failed_urls,
  all_failed_urls,
  bPending,           \* scrape_batch: entities whose future has not been consumed
  bTotalMentions,     \* scrape_batch: its own total_mentions, total_failed_urls,
  bTotalFailed,       \*   all_failed_urls
  bAllFailed,
  lastUnit,           \* scrape_batch: the unit consumed last and what its insert returned
  ret,                \* what the run returned
  tableAtStart,       \* celebrity_mentions when this run began
  rFault,             \* a store operation or a worker failed during this run
  prevFault,          \* ... during the run before
  \* ---- one call of BatchScraper.split_into_batches, statement by statement
  split_celebrities,  \* the argument celebrities
  split_batch_size,   \* the argument batch_size
  split_i,            \* the loop variable i of range(0, len(celebrities), batch_size)
  split_batches,      \* the local list batches
  split_pc,           \* "loop" | "returned"
  \* ---- one page on its way from the fetcher through clean_text to a mention
  MIN_CONFIDENCE_SCORE, \* config.MIN_CONFIDENCE_SCORE in hundredths (read from the environment)
  MIN_CONTENT_LENGTH, \* config.MIN_CONTENT_LENGTH (read from the environment)
  xPath,              \* "crawl4ai" (_fetch_single_url) | "requests" (fetch_and_parse)
  xHtml,              \* the content the fetcher got: result.markdown / response.text
  xParse,             \* "ok" | "unparsable" (both parsers fail) | "raises"
  xPc,                \* "start" | "fetched" | "separated" | "built"
  xClean,             \* what clean_text returned
  xFetch,             \* the dict the fetcher returned
  xSucc,              \* successful_results
  xFail,              \* failed_urls
  xMentions,           \* the worker's mentions
  \* ---- one document through clean_html and the character filter
  hDoc,               \* the parsed document: its elements with a text node, in document order
  hPc,                \* "start" | "extracted"
  hText,               \* cleaned_text of clean_text's result
  \* ---- the coroutines of one scrape_urls_async call, counted
  gUrls,              \* len(urls)
  gCreated,           \* coroutines gather has not started yet
  gInFlight,          \* coroutines inside `await crawler.arun(url)`
  gDone,               \* coroutines that have returned their dict
  \* ---- the ProcessPoolExecutor of one scrape_batch call
  worker_count,       \* self.worker_count
  pBatch,             \* the argument celebrities (their ids)
  pNext,              \* index of the next entity the comprehension of futures submits
  pSubmits,           \* per entity: calls of executor.submit made for it
  pTask,               \* per entity: "new" | "queued" | "running" | "done" | "consumed"
  \* ---- one invocation of search_google in which every request succeeds
  qQuery,             \* the argument query
  qCap,               \* config.SCRAPER_RESULTS_PER_CELEBRITY (read from the environment)
  qPc,                \* "start" | "page1" | "page2" | "returned"
  qParams,            \* the dict params
  qRequests,          \* the requests sent so far: the params of each and the links of its items
  qLocalUrls,         \* the local list urls
  qResult,             \* the list returned
  \* ---- one operation under its retry loop, with what each attempt met
  tPath,              \* "search" (wrapper around search_google) | "requests" (wrapper around fetch_and_parse) | "crawl4ai" (_fetch_single_url)
  tPc,                \* "attempt" | "returned" | "raised"
  tAttempt,           \* the attempt number
  tTrace,             \* what each attempt made so far met
  tSleeps,            \* the delays slept so far, as fractions of a second
  tResult,             \* the status of the dict returned, "ok" for a list of URLs, or the exception raised
  \* ---- the urls_processed values one run of scrape_all_celebrities writes to its job
  uCelebrities,       \* len(celebrities)
  CELEBRITIES_PER_BATCH,\* config.CELEBRITIES_PER_BATCH (read from the environment)
  uBatchIdx,          \* batch_idx of the batch processed last (0: none yet)
  uPc,                \* "batches" | "final" | "returned"
  uWrites,             \* the urls_processed values written so far, in order
  \* ---- the searches of the units of one run, each in its own scrape_celebrity_worker call
  kKeys,              \* len(GOOGLE_API_KEYS), fixed by the configuration
  kUnits,             \* units whose worker has begun
  kPc,                \* "idle" (no worker is searching) | "search"
  kIndex,             \* current_key_index of the searcher of the worker that began last
  kAttempt,           \* the attempt of that worker's search
  kResult,            \* how that worker's search ended: "none", "ok" or the exception raised
  kStarts,             \* per credential pair: units whose first request read that pair
  \* ---- one call of scrape_celebrity_worker, stage by stage
  cEntity,            \* celebrity_data['celebrity_id']
  cPc,                \* "start" | "search" | "fetch" | "build" | "returned" | "raised"
  cUrls,              \* urls, as search_google returned them
  cFetch,             \* (results, failed_urls) as scrape_urls returned them
  cRet,                 \* the dict the worker returned
  cPending,             \* scrape_batch: entities of the batch whose result is not collected yet
  cTotalFailed,         \* scrape_batch: total_failed_urls
  cAllFailed,            \* scrape_batch: all_failed_urls
  \* ---- the pool connections scrape_all_celebrities and _batch_insert_mentions take and give back
  nRun,               \* runs started
  nPc,                \* "idle" | "job" | "batch" | "final" | "returned"
  nBatches,           \* batches not finished yet
  nUnits,             \* units of the current batch with mentions still to insert
  nAcquired,          \* connections get_connection has handed out
  nReleased           \* connections close_connection has given back

searchVars == <<numKeys, jsonErrRetryable, current_key_index, sPc, sAttempt,
                sTrace, sStartIndex, sAttemptIndex, sSleeps,
                sResult, sCalls, selected, wResult>>

fetchVars == <<fMode, fUrls, fPc, fTask, fSucc, fFail>>

insertVars == <<iPc, iTxn, iCount, iFirst, lastRow, lastInsert, prevInsert>>

storeVars == <<celebrity_mentions, insertVars>>

envVars == <<roster, batchSize, searchEnv, fetchEnv>>

pipelineVars == <<scraping_jobs, envVars, run, rPc, celebrities, job_id, batches,
                  batch_idx, total_mentions, total_failed_urls, all_failed_urls,
                  bPending, bTotalMentions, bTotalFailed, bAllFailed, lastUnit, ret,
                  tableAtStart, rFault, prevFault>>

splitVars == <<split_celebrities, split_batch_size, split_i, split_batches, split_pc>>

textVars == <<MIN_CONFIDENCE_SCORE, MIN_CONTENT_LENGTH, xPath, xHtml, xParse, xPc,
              xClean, xFetch, xSucc, xFail, xMentions>>

htmlVars == <<hDoc, hPc, hText>>

gatherVars == <<gUrls, gCreated, gInFlight, gDone>>

poolVars == <<worker_count, pBatch, pNext, pSubmits, pTask>>

pagesVars == <<qQuery, qCap, qPc, qParams, qRequests, qLocalUrls, qResult>>

retryVars == <<tPath, tPc, tAttempt, tTrace, tSleeps, tResult>>

progressVars == <<uCelebrities, CELEBRITIES_PER_BATCH, uBatchIdx, uPc, uWrites>>

unitsVars == <<kKeys, kUnits, kPc, kIndex, kAttempt, kResult, kStarts>>

workerVars == <<cEntity, cPc, cUrls, cFetch, cRet, cPending, cTotalFailed, cAllFailed>>

connVars == <<nRun, nPc, nBatches, nUnits, nAcquired, nReleased>>

vars == <<searchVars, fetchVars, storeVars, pipelineVars, splitVars, textVars, htmlVars, gatherVars, poolVars, pagesVars, retryVars, progressVars, unitsVars, workerVars, connVars>>

nonSearchVars == <<fetchVars, storeVars, pipelineVars, splitVars, textVars, htmlVars, gatherVars, poolVars, pagesVars, retryVars, progressVars, unitsVars, workerVars, connVars>>
nonFetchVars == <<searchVars, storeVars, pipelineVars, splitVars, textVars, htmlVars, gatherVars, poolVars, pagesVars, retryVars, progressVars, unitsVars, workerVars, connVars>>
nonStoreVars == <<searchVars, fetchVars, pipelineVars, splitVars, textVars, htmlVars, gatherVars, poolVars, pagesVars, retryVars, progressVars, unitsVars, workerVars, connVars>>
nonPipelineVars == <<searchVars, fetchVars, insertVars, splitVars, textVars, htmlVars, gatherVars, poolVars, pagesVars, retryVars, progressVars, unitsVars, workerVars, connVars>>
nonSplitVars == <<searchVars, fetchVars, storeVars, pipelineVars, textVars, htmlVars, gatherVars, poolVars, pagesVars, retryVars, progressVars, unitsVars, workerVars, connVars>>
nonTextVars == <<searchVars, fetchVars, storeVars, pipelineVars, splitVars, htmlVars, gatherVars, poolVars, pagesVars, retryVars, progressVars, unitsVars, workerVars, connVars>>
nonHtmlVars == <<searchVars, fetchVars, storeVars, pipelineVars, splitVars, textVars, gatherVars, poolVars, pagesVars, retryVars, progressVars, unitsVars, workerVars, connVars>>
nonGatherVars == <<searchVars, fetchVars, storeVars, pipelineVars, splitVars, textVars, htmlVars, poolVars, pagesVars, retryVars, progressVars, unitsVars, workerVars, connVars>>
nonPoolVars == <<searchVars, fetchVars, storeVars, pipelineVars, splitVars, textVars, htmlVars, gatherVars, pagesVars, retryVars, progressVars, unitsVars, workerVars, connVars>>
nonPagesVars == <<searchVars, fetchVars, storeVars, pipelineVars, splitVars, textVars, htmlVars, gatherVars, poolVars, retryVars, progressVars, unitsVars, workerVars, connVars>>
nonRetryVars == <<searchVars, fetchVars, storeVars, pipelineVars, splitVars, textVars, htmlVars, gatherVars, poolVars, pagesVars, progressVars, unitsVars, workerVars, connVars>>
nonProgressVars == <<searchVars, fetchVars, storeVars, pipelineVars, splitVars, textVars, htmlVars, gatherVars, poolVars, pagesVars, retryVars, unitsVars, workerVars, connVars>>
nonUnitsVars == <<searchVars, fetchVars, storeVars, pipelineVars, splitVars, textVars, htmlVars, gatherVars, poolVars, pagesVars, retryVars, progressVars, workerVars, connVars>>
nonWorkerVars == <<searchVars, fetchVars, storeVars, pipelineVars, splitVars, textVars, htmlVars, gatherVars, poolVars, pagesVars, retryVars, progressVars, unitsVars, connVars>>
nonConnVars == <<searchVars, fetchVars, storeVars, pipelineVars, splitVars, textVars, htmlVars, gatherVars, poolVars, pagesVars, retryVars, progressVars, unitsVars, workerVars>>

----------------------------------------------------------------------------
\* Bounds of the model

MaxKeys == 3          \* credential pairs configured: 1..MaxKeys (config.py allows up to 5)
MaxCalls == 3         \* consecutive logical search calls on one searcher
MaxFetch == 2         \* length of the URL list given to one fetchAll call
MaxMentions == 2      \* length of the mention list given to one batch insert
MaxRuns == 2          \* runs of the pipeline on one store
MaxBatchSize == 2     \* entities per batch: 1..MaxBatchSize
MaxSplitLen == 3      \* length of the list given to one split_into_batches call
MaxSplitSize == 3     \* batch_size given to one split_into_batches call: 1..MaxSplitSize
MaxTextLen == 4       \* characters of the content given to one clean_text call
MaxMinContentLength == 2  \* configured MIN_CONTENT_LENGTH: 1..MaxMinContentLength
MaxElapsedMs == 1     \* measured processing time of one fetch: 0..MaxElapsedMs
MaxNodes == 2         \* elements with text in the document given to clean_html
MaxGatherUrls == 22   \* length of the URL list given to one scrape_urls_async call
MaxPoolBatch == 3     \* entities in the batch given to one scrape_batch call
MaxWorkers == 2       \* worker_count of the BatchScraper: 1..MaxWorkers
MaxPageItems == 2     \* items in one page of search results (the provider sends up to num)
MaxResultCap == 4     \* configured SCRAPER_RESULTS_PER_CELEBRITY: 1..MaxResultCap
MaxProgressRoster == 6 \* entities of the roster whose progress writes are followed
MaxProgressBatch == 6  \* configured CELEBRITIES_PER_BATCH: 1..MaxProgressBatch
MaxUnits == 4          \* units of a run whose searches are followed
MaxConnBatches == 2    \* batches of a run whose connections are followed

\* Program constants
SCRAPER_MAX_RETRIES == 3
SCRAPER_RESULTS_PER_CELEBRITY == 20
max_session_permit == 20
\* SCRAPER_BACKOFF_FACTOR = 0.5, as the fraction 1/2
SCRAPER_BACKOFF_FACTOR_NUM == 1
SCRAPER_BACKOFF_FACTOR_DEN == 2

\* "a1" and "a2" stand for two URLs that agree on their first 255 characters
Urls == {"a1", "a2", "b"}

Entities == {1, 2}

NoUrls == << >>

----------------------------------------------------------------------------
\* The search provider: what one page request can do

\* a page of results, in provider rank order
PageLists == { <<>>, <<"a1">>, <<"a1", "b">> }

\* kinds of failure of one page request
\*   timeout, conn_error : requests.Timeout / requests.ConnectionError
\*   http_error          : raise_for_status() on a 4xx/5xx response (requests.HTTPError)
\*   bad_json            : response.json() cannot decode the body
\*   error_payload       : a decoded body with an 'error' member
\*   bad_item            : an item without 'link' (KeyError)
PageFailKinds == {"timeout", "conn_error", "http_error", "bad_json", "error_payload", "bad_item"}

PageOutcomes ==
  [kind : {"ok"}, urls : PageLists] \cup [kind : PageFailKinds, urls : {NoUrls}]

\* one invocation of search_google: the first page and, if it is reached, the second
AttemptOutcomes ==
  { o \in [p1 : PageOutcomes, p2 : PageOutcomes] :
      o.p1.kind # "ok" => o.p2 = [kind |-> "ok", urls |-> NoUrls] }

\* a slice that cuts nothing
TakeAll(s, n) == s

Take(s, n) == IF Len(s) <= n THEN s ELSE SubSeq(s, 1, n)

----------------------------------------------------------------------------
\* GoogleSearcher (google_scraper.py)

\* _rotate_api_key: the cursor after one rotation
RotateApiKey(idx, K) == (idx + 1) % K

\* a wrapper that catches every Exception
IsRequestExceptionCatchAll(kind, jsonRetry) == kind # "none"

\* the class test of the wrapper's `except requests.RequestException`: Timeout,
\* ConnectionError and HTTPError are RequestExceptions; ValueError and KeyError are
\* not; the JSON decoding error is one or the other with the requests version
IsRequestException(kind, jsonRetry) ==
  \/ kind \in {"timeout", "conn_error", "http_error"}
  \/ kind = "bad_json" /\ jsonRetry

\* One invocation of the body of search_google at cursor idx with K pairs:
\* what it returns or raises, and the cursor it leaves.  Only the first page's
\* body is tested for an 'error' member; on the second page a body without
\* 'items' adds nothing.
SearchGoogleBody(o, idx, K) ==
  IF o.p1.kind # "ok"
    THEN [status |-> "raise", exc |-> o.p1.kind, urls |-> NoUrls,
          index |-> RotateApiKey(idx, K)]
  ELSE IF o.p2.kind \notin {"ok", "error_payload"}
    THEN [status |-> "raise", exc |-> o.p2.kind, urls |-> NoUrls,
          index |-> RotateApiKey(idx, K)]
  ELSE [status |-> "return", exc |-> "none",
        urls |-> Take(o.p1.urls \o o.p2.urls, SCRAPER_RESULTS_PER_CELEBRITY),
        index |-> RotateApiKey(idx, K)]

\* a wrapper whose loop runs one time too many
BackoffDecisionOffByOne(attempt, r, jsonRetry) ==
  IF r.status = "return" THEN "return"
  ELSE IF ~IsRequestException(r.exc, jsonRetry) THEN "raise"
  ELSE IF attempt <= SCRAPER_MAX_RETRIES THEN "retry"
  ELSE "raise"

\* exponential_backoff, one iteration of its loop on the body's result r:
\*   "return" the value, "retry" after a sleep, or "raise" to the caller
BackoffDecision(attempt, r, jsonRetry) ==
  IF r.status = "return" THEN "return"
  ELSE IF ~IsRequestException(r.exc, jsonRetry) THEN "raise"
  ELSE IF attempt < SCRAPER_MAX_RETRIES THEN "retry"
  ELSE "raise"

NoResult == [status |-> "none", exc |-> "none", urls |-> NoUrls]

\* scrape_celebrity_worker, lines 46-64: what the worker makes of the search
NoWorkerResult ==
  [proceed |-> FALSE, urls |-> NoUrls, mentions |-> << >>, failed_urls |-> << >>,
   error |-> "pending", escaped |-> FALSE]

\* a handler that lets the exception of the search leave the worker
WorkerSearchHandlerReraises(res) ==
  IF res.status = "raised"
    THEN [proceed |-> FALSE, urls |-> NoUrls, mentions |-> << >>, failed_urls |-> << >>,
          error |-> "Google search failed", escaped |-> TRUE]
  ELSE IF res.urls = NoUrls
    THEN [proceed |-> FALSE, urls |-> NoUrls, mentions |-> << >>, failed_urls |-> << >>,
          error |-> "No search results found", escaped |-> FALSE]
  ELSE [proceed |-> TRUE, urls |-> res.urls, mentions |-> << >>, failed_urls |-> << >>,
        error |-> "none", escaped |-> FALSE]

\* proceed: the worker goes on to fetch `urls`; otherwise it returns at once with
\* the given mentions, failed_urls and error.  escaped: the exception left the worker
WorkerSearchHandler(res) ==
  IF res.status = "raised"
    THEN [proceed |-> FALSE, urls |-> NoUrls, mentions |-> << >>, failed_urls |-> << >>,
          error |-> "Google search failed", escaped |-> FALSE]
  ELSE IF res.urls = NoUrls
    THEN [proceed |-> FALSE, urls |-> NoUrls, mentions |-> << >>, failed_urls |-> << >>,
          error |-> "No search results found", escaped |-> FALSE]
  ELSE [proceed |-> TRUE, urls |-> res.urls, mentions |-> << >>, failed_urls |-> << >>,
        error |-> "none", escaped |-> FALSE]

SearchInit ==
  /\ numKeys \in 1..MaxKeys
  /\ jsonErrRetryable \in BOOLEAN
  /\ current_key_index = 0
  /\ sPc = "idle"
  /\ sAttempt = 0
  /\ sTrace = << >>
  /\ sStartIndex = 0
  /\ sAttemptIndex = 0
  /\ sSleeps = << >>
  /\ sResult = NoResult
  /\ sCalls = 0
  /\ selected = [k \in 0..(numKeys - 1) |-> 0]
  /\ wResult = NoWorkerResult

\* the caller invokes searcher.search_google(name): the wrapper starts its loop
SearchStart ==
  /\ sPc \in {"idle", "handled"}
  /\ sCalls < MaxCalls
  /\ sPc' = "attempt"
  /\ sAttempt' = 1
  /\ sTrace' = << >>
  /\ sStartIndex' = current_key_index
  /\ sAttemptIndex' = current_key_index
  /\ sSleeps' = << >>
  /\ sResult' = NoResult
  /\ sCalls' = sCalls + 1
  /\ selected' = [selected EXCEPT ![current_key_index] = @ + 1]
  /\ wResult' = NoWorkerResult
  /\ UNCHANGED <<numKeys, jsonErrRetryable, current_key_index>>
  /\ UNCHANGED nonSearchVars

\* one iteration of the wrapper's loop: the body runs once on outcome o, then the
\* wrapper returns, sleeps and goes on, or raises
SearchAttempt(o) ==
  /\ sPc = "attempt"
  /\ LET r == SearchGoogleBody(o, current_key_index, numKeys)
         d == BackoffDecision(sAttempt, r, jsonErrRetryable)
     IN /\ current_key_index' = r.index
        /\ sAttemptIndex' = current_key_index
        /\ sTrace' = Append(sTrace, [p1 |-> o.p1.kind, p2 |-> o.p2.kind,
                                     res |-> IF r.status = "raise" THEN r.exc ELSE "ok"])
        /\ sPc' = CASE d = "return" -> "returned"
                    [] d = "retry"  -> "attempt"
                    [] OTHER        -> "raised"
        /\ sAttempt' = IF d = "retry" THEN sAttempt + 1 ELSE sAttempt
        /\ sSleeps' = IF d = "retry" THEN Append(sSleeps, sAttempt) ELSE sSleeps
        /\ sResult' = CASE d = "return" -> [status |-> "returned", exc |-> "none", urls |-> r.urls]
                        [] d = "retry"  -> sResult
                        [] OTHER        -> [status |-> "raised", exc |-> r.exc, urls |-> NoUrls]
  /\ UNCHANGED <<numKeys, jsonErrRetryable, sStartIndex, sCalls, selected, wResult>>
  /\ UNCHANGED nonSearchVars

\* the worker's try/except around the search
WorkerHandle ==
  /\ sPc \in {"returned", "raised"}
  /\ wResult' = WorkerSearchHandler(sResult)
  /\ sPc' = "handled"
  /\ UNCHANGED <<numKeys, jsonErrRetryable, current_key_index, sAttempt, sTrace,
                 sStartIndex, sAttemptIndex, sSleeps, sResult, sCalls, selected>>
  /\ UNCHANGED nonSearchVars

\* GoogleSearcher(): a worker builds its own searcher, cursor at 0
NewSearcher ==
  /\ sPc = "handled"
  /\ current_key_index' = 0
  /\ sPc' = "idle"
  /\ sCalls' = 0
  /\ selected' = [k \in 0..(numKeys - 1) |-> 0]
  /\ sAttempt' = 0
  /\ sTrace' = << >>
  /\ sStartIndex' = 0
  /\ sAttemptIndex' = 0
  /\ sSleeps' = << >>
  /\ sResult' = NoResult
  /\ wResult' = NoWorkerResult
  /\ UNCHANGED <<numKeys, jsonErrRetryable>>
  /\ UNCHANGED nonSearchVars

SearchNext ==
  \/ SearchStart
  \/ \E o \in AttemptOutcomes : SearchAttempt(o)
  \/ WorkerHandle
  \/ NewSearcher


----------------------------------------------------------------------------
\* Claims about the search client (checked under SpecSearch)

Range(f) == { f[i] : i \in DOMAIN f }

CallOver == sPc \in {"returned", "raised", "handled"}

CeilDiv(a, b) == (a + b - 1) \div b

\* C4 (as claimed): a logical call of search_google leaves the key cursor at
\* (cursor before the call + 1) mod K, on success and on failure alike, however
\* many attempts the retry wrapper made inside the call.
C4_CursorAdvancesOncePerCall ==
  CallOver => current_key_index = (sStartIndex + 1) % numKeys

\* C5 (as claimed): after N consecutive search calls on one searcher with K
\* credential pairs, each pair was the one selected for floor(N/K) or ceil(N/K)
\* of the calls.
C5_RotationFair ==
  \A k \in DOMAIN selected :
    selected[k] \in { sCalls \div numKeys, CeilDiv(sCalls, numKeys) }

\* the failures the claim C6 calls non-transient
NonTransientKinds == {"http_error", "bad_json", "error_payload", "bad_item"}

\* C6 (as claimed): an attempt that fails with a non-transient failure (HTTP
\* error response, malformed response) ends the search at once: no attempt
\* follows it, the call has failed, and no backoff sleep was made after it.
C6_NonTransientFailsAtOnce ==
  \A i \in 1..Len(sTrace) :
    sTrace[i].res \in NonTransientKinds =>
      /\ i = Len(sTrace)
      /\ sPc \in {"raised", "handled"}
      /\ i \notin Range(sSleeps)

C8_RetryBoundedAndContained ==
  /\ Len(sTrace) <= SCRAPER_MAX_RETRIES
  /\ \A i \in 1..Len(sTrace) :
       sTrace[i].res = "ok" => (i = Len(sTrace) /\ sPc \in {"returned", "handled"})
  /\ ( /\ Len(sTrace) = SCRAPER_MAX_RETRIES
       /\ \A i \in 1..Len(sTrace) : sTrace[i].res # "ok" )
     => ( /\ sPc \in {"raised", "handled"}
          /\ sResult.status = "raised"
          /\ sResult.exc = sTrace[SCRAPER_MAX_RETRIES].res )
  /\ (sPc = "handled" /\ sResult.status = "raised")
     => ( /\ wResult.mentions = << >>
          /\ wResult.failed_urls = << >>
          /\ ~wResult.proceed
          /\ ~wResult.escaped
          /\ wResult.error = "Google search failed" )

C8_Witness ==
  /\ sPc = "handled"
  /\ Len(sTrace) = SCRAPER_MAX_RETRIES
  /\ \A i \in 1..Len(sTrace) : sTrace[i].res \in {"timeout", "conn_error"}
  /\ sSleeps = <<1, 2>>
  /\ sResult.status = "raised"
  /\ wResult.error = "Google search failed"

\* C28 (as claimed): a search one of whose page requests, the first or the
\* second, got a body with an error payload fails with that provider error
\* and returns no list.
C28_ErrorPayloadOnAnyPageFails ==
  (sPc \in {"returned", "raised"} /\ sTrace # << >>
     /\ "error_payload" \in {sTrace[Len(sTrace)].p1, sTrace[Len(sTrace)].p2}) =>
    /\ sResult.status = "raised"
    /\ sResult.exc = "error_payload"

----------------------------------------------------------------------------
\* The page fetcher (crawl4ai_scraper.py, and WebScraper of google_scraper.py)

FetchUrls == {"a1", "b"}

RECURSIVE SeqsUpTo(_, _)
SeqsUpTo(S, n) ==
  IF n = 0 THEN { << >> }
  ELSE LET shorter == SeqsUpTo(S, n - 1)
       IN shorter \cup { Append(q, x) : q \in { r \in shorter : Len(r) = n - 1 }, x \in S }

\* what one crawler.arun(url) can do
\*   ok_<status>      : the crawl succeeded with content; clean_text gave <status>
\*   empty            : the crawl succeeded with no markdown
\*   crawl_failed_msg : result.success is false and result.error_message is set
\*   crawl_failed     : no result, or result.success false without an error message
\*   timeout          : asyncio.TimeoutError
\*   exception        : any other Exception
CrawlOutcomes ==
  {"ok_success", "ok_partial", "ok_failed", "ok_error", "empty",
   "crawl_failed_msg", "crawl_failed", "timeout", "exception"}

\* what one session.get(url) of WebScraper.fetch_and_parse can do
GetOutcomes ==
  {"ok_success", "ok_partial", "ok_failed", "ok_error", "invalid_content_type",
   "timeout", "request_exception", "exception"}

CleanStatus(outcome) ==
  CASE outcome = "ok_success" -> "success"
    [] outcome = "ok_partial" -> "partial"
    [] outcome = "ok_failed"  -> "failed"
    [] outcome = "ok_error"   -> "error"

\* Crawl4AIScraper._fetch_single_url, one level of its recursion: at `attempt`,
\* on `outcome`, either the status of the dict it returns, or "retry" (sleep, then
\* the call of itself with attempt + 1)
FetchSingleUrl(attempt, outcome) ==
  CASE outcome = "crawl_failed_msg" ->
         IF attempt < SCRAPER_MAX_RETRIES THEN "retry" ELSE "failed"
    [] outcome = "crawl_failed" -> "failed"
    [] outcome = "empty" -> "failed"
    [] outcome = "timeout" ->
         IF attempt < SCRAPER_MAX_RETRIES THEN "retry" ELSE "timeout"
    [] outcome = "exception" -> "failed"
    [] OTHER -> CleanStatus(outcome)

\* WebScraper.fetch_and_parse: the status of the dict it returns; every exception
\* is turned into a dict inside the function, so the wrapper sees a return
FetchAndParse(outcome) ==
  CASE outcome = "invalid_content_type" -> "failed"
    [] outcome = "timeout" -> "timeout"
    [] outcome = "request_exception" -> "failed"
    [] outcome = "exception" -> "failed"
    [] OTHER -> CleanStatus(outcome)

\* a separation whose else branch is `elif status == "failed"`
ClassifyFailedOnly(url, status) ==
  IF status \in {"success", "partial"}
    THEN [succ |-> << [original_url |-> url] >>, fail |-> << >>]
  ELSE IF status = "failed"
    THEN [succ |-> << >>, fail |-> << [url |-> url, status |-> status] >>]
  ELSE [succ |-> << >>, fail |-> << >>]

\* the if/else both fetchers apply to a (url, result) pair: what is appended to
\* the successes and what to the failures
Classify(url, status) ==
  IF status \in {"success", "partial"}
    THEN [succ |-> << [original_url |-> url] >>, fail |-> << >>]
  ELSE [succ |-> << >>, fail |-> << [url |-> url, status |-> status] >>]

\* a separation that gives up at the first result that is not a success
RECURSIVE SeparateResultsStopAtFailure(_, _, _)
SeparateResultsStopAtFailure(urls, results, i) ==
  IF i > Len(urls) \/ i > Len(results)
    THEN [succ |-> << >>, fail |-> << >>]
  ELSE IF results[i] \notin {"success", "partial"}
    THEN [succ |-> << >>, fail |-> << [url |-> urls[i], status |-> results[i]] >>]
  ELSE LET rest == SeparateResultsStopAtFailure(urls, results, i + 1)
       IN [succ |-> << [original_url |-> urls[i]] >> \o rest.succ, fail |-> rest.fail]

\* scrape_urls_async, lines 215-234: the loop over zip(urls, results)
RECURSIVE SeparateResults(_, _, _)
SeparateResults(urls, results, i) ==
  IF i > Len(urls) \/ i > Len(results)
    THEN [succ |-> << >>, fail |-> << >>]
  ELSE LET c == Classify(urls[i], results[i])
           rest == SeparateResults(urls, results, i + 1)
       IN [succ |-> c.succ \o rest.succ, fail |-> c.fail \o rest.fail]

PendingTask == [attempt |-> 1, status |-> "pending"]

FetchInit ==
  /\ fMode \in {"async", "sync"}
  /\ fUrls \in SeqsUpTo(FetchUrls, MaxFetch)
  /\ fPc = "fetching"
  /\ fTask = [i \in 1..Len(fUrls) |-> PendingTask]
  /\ fSucc = << >>
  /\ fFail = << >>

FetchIdle ==
  /\ fMode = "async"
  /\ fUrls = << >>
  /\ fPc = "returned"
  /\ fTask = << >>
  /\ fSucc = << >>
  /\ fFail = << >>

\* one attempt of one of the gathered coroutines; the coroutines interleave at
\* their awaits
AsyncAttempt(i, outcome) ==
  /\ fMode = "async"
  /\ fPc = "fetching"
  /\ fTask[i].status = "pending"
  /\ LET st == FetchSingleUrl(fTask[i].attempt, outcome)
     IN fTask' = [fTask EXCEPT ![i] =
                    IF st = "retry"
                      THEN [attempt |-> @.attempt + 1, status |-> "pending"]
                      ELSE [attempt |-> @.attempt, status |-> st]]
  /\ UNCHANGED <<fMode, fUrls, fPc, fSucc, fFail>>
  /\ UNCHANGED nonFetchVars

\* gather has every result (or the list was empty): separate them and return
AsyncCollect ==
  /\ fMode = "async"
  /\ fPc = "fetching"
  /\ \A i \in 1..Len(fUrls) : fTask[i].status # "pending"
  /\ LET r == SeparateResults(fUrls, [i \in 1..Len(fUrls) |-> fTask[i].status], 1)
     IN /\ fSucc' = r.succ
        /\ fFail' = r.fail
  /\ fPc' = "returned"
  /\ UNCHANGED <<fMode, fUrls, fTask>>
  /\ UNCHANGED nonFetchVars

\* WebScraper.scrape_urls, one iteration of its loop: the next URL is fetched
\* through the wrapper and appended to one of the lists
SyncFetch(i, outcome) ==
  /\ fMode = "sync"
  /\ fPc = "fetching"
  /\ fTask[i].status = "pending"
  /\ \A j \in 1..(i - 1) : fTask[j].status # "pending"
  /\ LET st == FetchAndParse(outcome)
         d == BackoffDecision(1, [status |-> "return", exc |-> "none"], FALSE)
         c == Classify(fUrls[i], st)
     IN /\ d = "return"
        /\ fTask' = [fTask EXCEPT ![i] = [attempt |-> 1, status |-> st]]
        /\ fSucc' = fSucc \o c.succ
        /\ fFail' = fFail \o c.fail
  /\ UNCHANGED <<fMode, fUrls, fPc>>
  /\ UNCHANGED nonFetchVars

SyncReturn ==
  /\ fMode = "sync"
  /\ fPc = "fetching"
  /\ \A i \in 1..Len(fUrls) : fTask[i].status # "pending"
  /\ fPc' = "returned"
  /\ UNCHANGED <<fMode, fUrls, fTask, fSucc, fFail>>
  /\ UNCHANGED nonFetchVars

FetchNext ==
  \/ \E i \in 1..Len(fUrls), o \in CrawlOutcomes : AsyncAttempt(i, o)
  \/ AsyncCollect
  \/ \E i \in 1..Len(fUrls), o \in GetOutcomes : SyncFetch(i, o)
  \/ SyncReturn

----------------------------------------------------------------------------
\* Claims about the page fetcher (checked under SpecFetch)

RECURSIVE CountIn(_, _)
\* how many elements of the sequence s equal x
CountIn(s, x) ==
  IF s = << >> THEN 0
  ELSE (IF Head(s) = x THEN 1 ELSE 0) + CountIn(Tail(s), x)

SuccUrls == [i \in 1..Len(fSucc) |-> fSucc[i].original_url]
FailUrls == [i \in 1..Len(fFail) |-> fFail[i].url]

\* C1: when fetchAll has returned, successes and failures together are as many
\* as the input URLs, and every URL occurs in the two output lists together as
\* often as in the input and never in both for one occurrence: each input
\* occurrence is in exactly one list exactly once.
C1_FetchComplete ==
  fPc = "returned" =>
    /\ Len(fSucc) + Len(fFail) = Len(fUrls)
    /\ \A u \in FetchUrls :
         CountIn(SuccUrls, u) + CountIn(FailUrls, u) = CountIn(fUrls, u)

C1_Witness ==
  /\ fPc = "returned"
  /\ fMode = "async"
  /\ Len(fUrls) = 2
  /\ fUrls[1] = fUrls[2]
  /\ fTask[1].status = "timeout"
  /\ fTask[2].status = "success"
  /\ Len(fSucc) = 1
  /\ Len(fFail) = 1

\* the fetches of the call, in input order: each URL with the status its own
\* attempts ended in
FetchOutcomes == [i \in 1..Len(fUrls) |-> [url |-> fUrls[i], status |-> fTask[i].status]]

FetchSucceeded(t) == t.status \in {"success", "partial"}

FetchFailed(t) == t.status \notin {"success", "partial"}

\* C14: when fetchAll has returned, the failures are exactly the fetches that
\* ended in a status other than success or partial, each recorded with its URL
\* and status, and the successes are exactly the other fetches, in input order:
\* a fetch that failed took no sibling with it and changed no sibling's outcome.
\* While the fetches run, one that has ended in failure leaves the call going.
C14_FailureKeepsSiblings ==
  /\ fPc = "returned" =>
       /\ SuccUrls = [i \in 1..Len(SelectSeq(FetchOutcomes, FetchSucceeded)) |->
                        SelectSeq(FetchOutcomes, FetchSucceeded)[i].url]
       /\ fFail = SelectSeq(FetchOutcomes, FetchFailed)
  /\ (\E i \in 1..Len(fUrls) : fTask[i].status = "pending") => fPc = "fetching"

\* two concurrent fetches: the first failed after all its retries, the second
\* ended partial and is among the successes
C14_Witness ==
  /\ fPc = "returned"
  /\ fMode = "async"
  /\ fUrls = <<"a1", "b">>
  /\ fTask[1] = [attempt |-> SCRAPER_MAX_RETRIES, status |-> "failed"]
  /\ fTask[2].status = "partial"
  /\ fSucc = << [original_url |-> "b"] >>
  /\ fFail = << [url |-> "a1", status |-> "failed"] >>

----------------------------------------------------------------------------
\* The store: table celebrity_mentions and DatabaseHandler.batch_insert_mentions

StoreKeys == Entities \X Urls

Mentions == [celebrity_id : Entities, original_url : Urls]

EmptyTable == [k \in StoreKeys |-> 0]

KeyOf(m) == <<m.celebrity_id, m.original_url>>

\* the first 255 characters of a URL: what the unique index keeps of original_url
UrlPrefix255(u) == IF u \in {"a1", "a2"} THEN "a" ELSE u

\* a unique index on original_url alone
UniqueConflictUrlOnly(txn, m) ==
  \E k \in StoreKeys :
    /\ txn[k] > 0
    /\ UrlPrefix255(k[2]) = UrlPrefix255(m.original_url)

\* UNIQUE (celebrity_id, original_url(255)): does inserting m meet a row of txn
\* with the same index entry ("Duplicate entry")
UniqueConflict(txn, m) ==
  \E k \in StoreKeys :
    /\ txn[k] > 0
    /\ k[1] = m.celebrity_id
    /\ UrlPrefix255(k[2]) = UrlPrefix255(m.original_url)

\* a store that has no unique index
InsertRowNoIndex(txn, m, err) ==
  IF err
    THEN [txn |-> txn, disp |-> "error", inserted |-> 0, skipped |-> 1]
  ELSE [txn |-> [txn EXCEPT ![KeyOf(m)] = @ + 1], disp |-> "inserted",
        inserted |-> 1, skipped |-> 0]

\* one iteration of the loop of batch_insert_mentions, in a transaction that sees
\* txn: the row is "inserted", or cursor.execute raises a MySQLError, "duplicate"
\* ("Duplicate entry") or "error" (any other, when err); the counters move with it
InsertRow(txn, m, err) ==
  LET d == IF UniqueConflict(txn, m) THEN "duplicate"
           ELSE IF err THEN "error"
           ELSE "inserted"
  IN [txn |-> IF d = "inserted" THEN [txn EXCEPT ![KeyOf(m)] = @ + 1] ELSE txn,
      disp |-> d,
      inserted |-> IF d = "inserted" THEN 1 ELSE 0,
      skipped |-> IF d = "inserted" THEN 0 ELSE 1]

\* the whole loop from row i on; rowErr: the rows the store fails for another reason
RECURSIVE InsertRows(_, _, _, _)
InsertRows(txn, mentions, i, rowErr) ==
  IF i > Len(mentions) THEN [txn |-> txn, inserted |-> 0, skipped |-> 0]
  ELSE LET r == InsertRow(txn, mentions[i], i \in rowErr)
           rest == InsertRows(r.txn, mentions, i + 1, rowErr)
       IN [txn |-> rest.txn, inserted |-> r.inserted + rest.inserted,
           skipped |-> r.skipped + rest.skipped]

\* a call that never commits what it has executed
NeverCommit(table, txn, commitOk) == table

\* connection.commit() at the end of the loop: the transaction's rows become the
\* table, or commit raises and the handler rolls back
CommitOrRollback(table, txn, commitOk) == IF commitOk THEN txn ELSE table

StoreFaults == {"none", "cursor_raises", "commit_fails"}

\* batch_insert_mentions(connection, mentions) on `table`, as one step:
\*   fault "cursor_raises": connection.cursor() raises; the finally clause then
\*     raises too (cursor is unbound) and the call ends in an exception
\*   fault "commit_fails": connection.commit() raises; the call rolls back and
\*     returns the counters as they stand
BatchInsertMentions(table, mentions, rowErr, fault) ==
  IF fault = "cursor_raises"
    THEN [table |-> table, inserted |-> 0, skipped |-> 0, raised |-> TRUE,
          committed |-> FALSE]
  ELSE LET r == InsertRows(table, mentions, 1, rowErr)
       IN [table |-> CommitOrRollback(table, r.txn, fault # "commit_fails"),
           inserted |-> r.inserted,
           skipped |-> r.skipped,
           raised |-> FALSE,
           committed |-> fault # "commit_fails"]

SomeMention == [celebrity_id |-> 1, original_url |-> "b"]

\* what is kept of a finished call: how many mentions it was given (n), the
\* mention when it was given exactly one, and what it returned
NoInsert ==
  [n |-> 0, mention |-> SomeMention, inserted |-> 0, skipped |-> 0,
   raised |-> FALSE, committed |-> FALSE]

NoRow ==
  [mention |-> SomeMention, storedBefore |-> FALSE, sameEntityBefore |-> FALSE,
   disp |-> "none", inserted |-> 0, skipped |-> 0]

StoreInit ==
  /\ celebrity_mentions = EmptyTable
  /\ iPc = "idle"
  /\ iTxn = EmptyTable
  /\ iCount = [n |-> 0, inserted |-> 0, skipped |-> 0]
  /\ iFirst = SomeMention
  /\ lastRow = NoRow
  /\ lastInsert = NoInsert
  /\ prevInsert = NoInsert

\* batch_insert_mentions is called: connection.cursor()
InsertBegin(cursorOk) ==
  /\ iPc = "idle"
  /\ prevInsert' = lastInsert
  /\ lastRow' = NoRow
  /\ iCount' = [n |-> 0, inserted |-> 0, skipped |-> 0]
  /\ iFirst' = SomeMention
  /\ IF cursorOk
       THEN /\ iPc' = "rows"
            /\ iTxn' = celebrity_mentions
            /\ lastInsert' = NoInsert
       ELSE /\ iPc' = "idle"
            /\ iTxn' = EmptyTable
            /\ LET r == BatchInsertMentions(celebrity_mentions, << >>, {}, "cursor_raises")
               IN lastInsert' = [n |-> 0, mention |-> SomeMention, inserted |-> r.inserted,
                                 skipped |-> r.skipped, raised |-> r.raised,
                                 committed |-> r.committed]
  /\ UNCHANGED celebrity_mentions
  /\ UNCHANGED nonStoreVars

\* the next mention of the list goes through the loop body
InsertNextRow(m, err) ==
  /\ iPc = "rows"
  /\ iCount.n < MaxMentions
  /\ LET r == InsertRow(iTxn, m, err)
     IN /\ iTxn' = r.txn
        /\ iCount' = [n |-> iCount.n + 1, inserted |-> iCount.inserted + r.inserted,
                      skipped |-> iCount.skipped + r.skipped]
        /\ lastRow' = [mention |-> m,
                       storedBefore |-> celebrity_mentions[KeyOf(m)] > 0,
                       sameEntityBefore |->
                         \E k \in StoreKeys :
                           /\ iTxn[k] > 0
                           /\ k[1] = m.celebrity_id
                           /\ (k[2] = m.original_url
                               \/ {k[2], m.original_url} \subseteq {"a1", "a2"}),
                       disp |-> r.disp, inserted |-> r.inserted, skipped |-> r.skipped]
  /\ iFirst' = IF iCount.n = 0 THEN m ELSE iFirst
  /\ UNCHANGED <<celebrity_mentions, iPc, lastInsert, prevInsert>>
  /\ UNCHANGED nonStoreVars

\* the list is exhausted: commit (or roll back) and return the counters
InsertEnd(commitOk) ==
  /\ iPc = "rows"
  /\ celebrity_mentions' = CommitOrRollback(celebrity_mentions, iTxn, commitOk)
  /\ lastInsert' = [n |-> iCount.n,
                    mention |-> IF iCount.n = 1 THEN iFirst ELSE SomeMention,
                    inserted |-> iCount.inserted, skipped |-> iCount.skipped,
                    raised |-> FALSE, committed |-> commitOk]
  /\ iPc' = "idle"
  /\ iTxn' = EmptyTable
  /\ iCount' = [n |-> 0, inserted |-> 0, skipped |-> 0]
  /\ iFirst' = SomeMention
  /\ lastRow' = NoRow
  /\ UNCHANGED prevInsert
  /\ UNCHANGED nonStoreVars

StoreNext ==
  \/ \E cursorOk \in BOOLEAN : InsertBegin(cursorOk)
  \/ \E m \in Mentions, err \in BOOLEAN : InsertNextRow(m, err)
  \/ \E commitOk \in BOOLEAN : InsertEnd(commitOk)

----------------------------------------------------------------------------
\* Claims about the store (checked under SpecStore)

\* C2: (a) the table never holds two rows with the same (entityId, originalUrl);
\* (b) a mention whose key is already stored when it is inserted is counted as
\* skipped and not as inserted, and the call goes on (nothing is raised);
\* (c) when a call inserted and committed a mention and the next call is given
\* that same mention, the two calls together report inserted = 1 and skipped = 1
\* and the table holds exactly one row for the key; (d) a row is refused as a
\* duplicate only when the table or the call's own earlier rows hold that URL
\* under the same entityId: the same URL under another entityId is inserted.
C2_DedupIdempotent ==
  /\ \A k \in StoreKeys : celebrity_mentions[k] <= 1
  /\ iCount.inserted + iCount.skipped = iCount.n
  /\ lastRow.storedBefore =>
       (lastRow.disp = "duplicate" /\ lastRow.skipped = 1 /\ lastRow.inserted = 0)
  /\ lastRow.disp = "duplicate" => lastRow.sameEntityBefore
  /\ ( /\ iPc = "idle"
       /\ prevInsert.n = 1
       /\ prevInsert.inserted = 1
       /\ prevInsert.committed
       /\ lastInsert.n = 1
       /\ lastInsert.mention = prevInsert.mention )
     => ( /\ ~lastInsert.raised
          /\ prevInsert.inserted + lastInsert.inserted = 1
          /\ prevInsert.skipped + lastInsert.skipped = 1
          /\ celebrity_mentions[KeyOf(prevInsert.mention)] = 1 )

\* the same mention given to two calls in a row, while the same URL is stored
\* under the other entity as well
C2_Witness ==
  /\ iPc = "idle"
  /\ prevInsert.n = 1
  /\ prevInsert.inserted = 1
  /\ prevInsert.committed
  /\ prevInsert.mention = [celebrity_id |-> 2, original_url |-> "b"]
  /\ lastInsert.n = 1
  /\ lastInsert.mention = prevInsert.mention
  /\ lastInsert.skipped = 1
  /\ celebrity_mentions[<<2, "b">>] = 1

----------------------------------------------------------------------------
\* The pipeline (scraping_pipeline.py) and the job table (database_handler.py)

Rosters == { << >>, <<1, 2>> }

\* what the provider answers an entity's search with, at every attempt
SearchChoices ==
  { [p1 |-> [kind |-> "ok", urls |-> <<"a1", "b">>], p2 |-> [kind |-> "ok", urls |-> NoUrls]],
    [p1 |-> [kind |-> "ok", urls |-> <<"a1">>], p2 |-> [kind |-> "ok", urls |-> <<"a1">>]],
    [p1 |-> [kind |-> "ok", urls |-> NoUrls], p2 |-> [kind |-> "ok", urls |-> NoUrls]],
    [p1 |-> [kind |-> "timeout", urls |-> NoUrls], p2 |-> [kind |-> "ok", urls |-> NoUrls]] }

\* what a URL answers a crawl with, at every attempt
FetchChoices == {"ok_success", "timeout"}

\* the environments of a run: the first entity's search finds the same URL on
\* both pages, finds nothing or times out; the second entity's finds two URLs or
\* times out; URL "b" can always be fetched
Environments ==
  { env \in [search : [Entities -> SearchChoices], fetch : [FetchUrls -> FetchChoices]] :
      /\ env.search[1].p1.urls # <<"a1", "b">>
      /\ env.search[2].p1.kind = "ok" => env.search[2].p1.urls = <<"a1", "b">>
      /\ env.fetch["b"] = "ok_success" }

Min(a, b) == IF a <= b THEN a ELSE b

\* BatchScraper.split_into_batches
SplitIntoBatches(celebs, batch_size) ==
  [k \in 1..CeilDiv(Len(celebs), batch_size) |->
     SubSeq(celebs, (k - 1) * batch_size + 1, Min(k * batch_size, Len(celebs)))]

\* searcher.search_google(name) through the wrapper, from `attempt` on, when every
\* request meets outcome o: what the caller gets
RECURSIVE SearchGoogle(_, _, _, _, _)
SearchGoogle(o, attempt, idx, K, jsonRetry) ==
  LET r == SearchGoogleBody(o, idx, K)
      d == BackoffDecision(attempt, r, jsonRetry)
  IN CASE d = "return" -> [status |-> "returned", exc |-> "none", urls |-> r.urls]
       [] d = "retry"  -> SearchGoogle(o, attempt + 1, r.index, K, jsonRetry)
       [] OTHER        -> [status |-> "raised", exc |-> r.exc, urls |-> NoUrls]

\* _fetch_single_url(crawler, url, attempt) when every crawl meets `outcome`
RECURSIVE FetchUrl(_, _)
FetchUrl(attempt, outcome) ==
  LET st == FetchSingleUrl(attempt, outcome)
  IN IF st = "retry" THEN FetchUrl(attempt + 1, outcome) ELSE st

\* Crawl4AIScraper.scrape_urls(urls)
ScrapeUrls(urls, fenv) ==
  SeparateResults(urls, [i \in 1..Len(urls) |-> FetchUrl(1, fenv[urls[i]])], 1)

\* scrape_celebrity_worker: a fresh GoogleSearcher (cursor 0), the search, the
\* fetch of its URLs, one mention per successful result
ScrapeCelebrityWorker(e, senv, fenv, K, jsonRetry) ==
  LET h == WorkerSearchHandler(SearchGoogle(senv[e], 1, 0, K, jsonRetry))
      f == ScrapeUrls(h.urls, fenv)
  IN IF ~h.proceed
       THEN [celebrity_id |-> e, mentions |-> h.mentions, failed_urls |-> h.failed_urls,
             error |-> h.error]
     ELSE [celebrity_id |-> e,
           mentions |-> [i \in 1..Len(f.succ) |->
                           [celebrity_id |-> e, original_url |-> f.succ[i].original_url]],
           failed_urls |-> f.fail,
           error |-> "none"]

\* BatchScraper._batch_insert_mentions: get a connection, insert, close; any
\* exception gives (0, len(mentions))
BatchInsertWrapper(table, mentions, connOk, rowErr, fault) ==
  IF mentions = << >>
    THEN [table |-> table, inserted |-> 0, skipped |-> 0]
  ELSE IF ~connOk
    THEN [table |-> table, inserted |-> 0, skipped |-> Len(mentions)]
  ELSE LET r == BatchInsertMentions(table, mentions, rowErr, fault)
       IN IF r.raised
            THEN [table |-> r.table, inserted |-> 0, skipped |-> Len(mentions)]
          ELSE [table |-> r.table, inserted |-> r.inserted, skipped |-> r.skipped]

\* get_scraping_job_id: INSERT INTO scraping_jobs (celebrity_id, status, start_time)
NewJob == [status |-> "running", mentions_found |-> 0, urls_processed |-> 0,
           end_time |-> FALSE]

\* an update that sets the status column whatever it is given
UpdateScrapingJobAlwaysStatus(job, status, mentions_found, urls_processed) ==
  [status |-> status,
   mentions_found |-> mentions_found,
   urls_processed |-> urls_processed,
   end_time |-> IF status \in {"completed", "failed"} THEN TRUE ELSE job.end_time]

\* an update that adds the count it is given to the stored one
UpdateScrapingJobAddsCount(job, status, mentions_found, urls_processed) ==
  [status |-> IF status # "none" THEN status ELSE job.status,
   mentions_found |-> job.mentions_found + mentions_found,
   urls_processed |-> urls_processed,
   end_time |-> IF status \in {"completed", "failed"} THEN TRUE ELSE job.end_time]

\* update_scraping_job(connection, job_id, status, mentions_found, urls_processed):
\* the row after the UPDATE; status "none" stands for the default None
UpdateScrapingJob(job, status, mentions_found, urls_processed) ==
  [status |-> IF status # "none" THEN status ELSE job.status,
   mentions_found |-> mentions_found,
   urls_processed |-> urls_processed,
   end_time |-> IF status \in {"completed", "failed"} THEN TRUE ELSE job.end_time]

\* no unit consumed yet in this batch
NoUnit == [entity |-> 0, fault |-> "none", n |-> 0, inserted |-> 0, skipped |-> 0]

NoReturn == [total_mentions |-> 0, total_failed_urls |-> 0, all_failed_urls |-> << >>]

\* Range of a batch: the entities of batches[i]
BatchEntities(bs, i) == { bs[i][j] : j \in 1..Len(bs[i]) }

PipelineInit ==
  /\ scraping_jobs = << >>
  /\ roster \in Rosters
  /\ batchSize \in 1..MaxBatchSize
  /\ \E env \in Environments :
       /\ searchEnv = env.search
       /\ fetchEnv = env.fetch
  /\ batchSize <= IF roster = << >> THEN 1 ELSE Len(roster)
  /\ roster = << >> =>
       /\ \A e \in Entities : searchEnv[e].p1.kind = "timeout"
       /\ \A u \in FetchUrls : fetchEnv[u] = "ok_success"
  /\ run = 0
  /\ rPc = "idle"
  /\ celebrities = << >>
  /\ job_id = 0
  /\ batches = << >>
  /\ batch_idx = 0
  /\ total_mentions = 0
  /\ total_failed_urls = 0
  /\ all_failed_urls = << >>
  /\ bPending = {}
  /\ bTotalMentions = 0
  /\ bTotalFailed = 0
  /\ bAllFailed = << >>
  /\ lastUnit = NoUnit
  /\ ret = NoReturn
  /\ tableAtStart = EmptyTable
  /\ rFault = FALSE
  /\ prevFault = FALSE

PipelineIdle ==
  /\ scraping_jobs = << >>
  /\ roster = << >>
  /\ batchSize = 1
  /\ searchEnv = [e \in Entities |->
                    [p1 |-> [kind |-> "ok", urls |-> NoUrls],
                     p2 |-> [kind |-> "ok", urls |-> NoUrls]]]
  /\ fetchEnv = [u \in FetchUrls |-> "ok_success"]
  /\ run = 0
  /\ rPc = "idle"
  /\ celebrities = << >>
  /\ job_id = 0
  /\ batches = << >>
  /\ batch_idx = 0
  /\ total_mentions = 0
  /\ total_failed_urls = 0
  /\ all_failed_urls = << >>
  /\ bPending = {}
  /\ bTotalMentions = 0
  /\ bTotalFailed = 0
  /\ bAllFailed = << >>
  /\ lastUnit = NoUnit
  /\ ret = NoReturn
  /\ tableAtStart = EmptyTable
  /\ rFault = FALSE
  /\ prevFault = FALSE

\* a run that goes on to create its job whatever the roster it has read
AfterRosterLoadNoGuard(celebs) == "create_job"

\* scrape_all_celebrities, lines 280-282: `if not celebrities: return 0, 0, []`
AfterRosterLoad(celebs) == IF celebs = << >> THEN "returned" ELSE "create_job"

\* scrape_all_celebrities, lines 272-284: a run begins and reads the roster.
\* get_connection may raise (the run ends in the outer except); a failed SELECT
\* gives an empty roster
RunStart(connOk, readOk) ==
  /\ rPc \in {"idle", "returned"}
  /\ run < MaxRuns
  /\ run' = run + 1
  /\ prevFault' = rFault
  /\ tableAtStart' = celebrity_mentions
  /\ celebrities' = IF connOk /\ readOk THEN roster ELSE << >>
  /\ rFault' = ~(connOk /\ readOk)
  /\ rPc' = AfterRosterLoad(celebrities')
  /\ ret' = NoReturn
  /\ job_id' = 0
  /\ batches' = << >>
  /\ batch_idx' = 0
  /\ total_mentions' = 0
  /\ total_failed_urls' = 0
  /\ all_failed_urls' = << >>
  /\ bPending' = {}
  /\ bTotalMentions' = 0
  /\ bTotalFailed' = 0
  /\ bAllFailed' = << >>
  /\ lastUnit' = NoUnit
  /\ UNCHANGED <<scraping_jobs, envVars, celebrity_mentions>>
  /\ UNCHANGED nonPipelineVars

\* the outer `except Exception` of scrape_all_celebrities: return 0, 0, []
PipelineError ==
  /\ rPc' = "returned"
  /\ ret' = NoReturn
  /\ rFault' = TRUE

\* lines 286-304: the job row is created, the roster is split and the first
\* batch is handed to the pool
CreateJob(connOk, insertOk, poolOk) ==
  /\ rPc = "create_job"
  /\ IF connOk /\ insertOk
       THEN /\ scraping_jobs' = Append(scraping_jobs, NewJob)
            /\ job_id' = Len(scraping_jobs) + 1
            /\ batches' = SplitIntoBatches(celebrities, batchSize)
            /\ IF batches' = << >>
                 THEN /\ batch_idx' = 0
                      /\ bPending' = {}
                      /\ rFault' = rFault
                      /\ rPc' = "final"
                 ELSE /\ batch_idx' = 1
                      /\ bPending' = IF poolOk THEN BatchEntities(batches', 1) ELSE {}
                      /\ rFault' = (rFault \/ ~poolOk)
                      /\ rPc' = "batch"
            /\ UNCHANGED ret
       ELSE /\ PipelineError
            /\ UNCHANGED <<scraping_jobs, job_id, batches, batch_idx, bPending>>
  /\ UNCHANGED <<envVars, run, celebrities, total_mentions, total_failed_urls,
                 all_failed_urls, bTotalMentions, bTotalFailed, bAllFailed,
                 lastUnit, tableAtStart, prevFault, celebrity_mentions>>
  /\ UNCHANGED nonPipelineVars

\* a loop over the futures that stops at the first unit with an error
RemainingFuturesAbortOnError(pending, e, error) ==
  IF error # "none" THEN {} ELSE pending \ {e}

\* scrape_batch, the loop over as_completed(futures): the futures left after the
\* one of entity e was consumed; an error in the result is logged and an
\* exception while consuming it is caught inside the loop
RemainingFutures(pending, e, error) == pending \ {e}

\* what can go wrong while one worker's result is consumed
\*   future_raises : future.result() raises (the worker process died)
\*   conn_fails    : get_connection raises inside _batch_insert_mentions
\*   cursor_raises, commit_fails : inside batch_insert_mentions
UnitFaults == {"none", "future_raises", "conn_fails", "cursor_raises", "commit_fails"}

\* scrape_batch, one iteration of `for future in as_completed(futures)`: the
\* worker's result is read (or future.result raises and the entity is passed
\* over), its mentions are inserted and its failed URLs collected
UnitDone(e, fault) ==
  /\ rPc = "batch"
  /\ e \in bPending
  /\ LET w == ScrapeCelebrityWorker(e, searchEnv, fetchEnv, numKeys, jsonErrRetryable)
     IN /\ bPending' = RemainingFutures(bPending, e,
                                        IF fault = "future_raises" THEN fault ELSE w.error)
        /\ fault \notin {"none", "future_raises"} => w.mentions # << >>
        /\ IF fault = "future_raises"
             THEN /\ rFault' = TRUE
                  /\ lastUnit' = [entity |-> e, fault |-> fault, n |-> 0,
                                  inserted |-> 0, skipped |-> 0]
                  /\ UNCHANGED <<celebrity_mentions, bTotalMentions, bTotalFailed,
                                 bAllFailed>>
             ELSE \E rowErr \in SUBSET (1..Len(w.mentions)) :
                    LET ins == BatchInsertWrapper(celebrity_mentions, w.mentions,
                                 fault # "conn_fails", rowErr,
                                 IF fault \in StoreFaults THEN fault ELSE "none")
                    IN /\ rowErr # {} => fault = "none"
                       /\ celebrity_mentions' = ins.table
                       /\ bTotalMentions' = bTotalMentions + ins.inserted
                       /\ bTotalFailed' = bTotalFailed + Len(w.failed_urls)
                       /\ bAllFailed' = bAllFailed \o w.failed_urls
                       /\ rFault' = (rFault \/ rowErr # {} \/ fault # "none")
                       /\ lastUnit' = [entity |-> e, fault |-> fault,
                                       n |-> Len(w.mentions),
                                       inserted |-> ins.inserted,
                                       skipped |-> ins.skipped]
  /\ UNCHANGED <<scraping_jobs, envVars, run, rPc, celebrities, job_id, batches,
                 batch_idx, total_mentions, total_failed_urls, all_failed_urls, ret,
                 tableAtStart, prevFault>>
  /\ UNCHANGED nonPipelineVars

\* lines 304-317: scrape_batch has returned; the run adds the batch's totals to
\* its own, writes the progress of the job and goes to the next batch
BatchDone(connOk, updOk, poolOk) ==
  /\ rPc = "batch"
  /\ bPending = {}
  /\ total_mentions' = total_mentions + bTotalMentions
  /\ total_failed_urls' = total_failed_urls + bTotalFailed
  /\ all_failed_urls' = all_failed_urls \o bAllFailed
  /\ bTotalMentions' = 0
  /\ bTotalFailed' = 0
  /\ bAllFailed' = << >>
  /\ lastUnit' = NoUnit
  /\ IF connOk
       THEN /\ scraping_jobs' =
                 IF updOk
                   THEN [scraping_jobs EXCEPT ![job_id] =
                           UpdateScrapingJob(@, "none", total_mentions',
                                             batch_idx * batchSize * 20)]
                   ELSE scraping_jobs
            /\ IF batch_idx < Len(batches)
                 THEN /\ batch_idx' = batch_idx + 1
                      /\ bPending' = IF poolOk THEN BatchEntities(batches, batch_idx + 1)
                                     ELSE {}
                      /\ rFault' = (rFault \/ ~updOk \/ ~poolOk)
                      /\ rPc' = "batch"
                 ELSE /\ rFault' = (rFault \/ ~updOk)
                      /\ rPc' = "final"
                      /\ UNCHANGED <<batch_idx, bPending>>
            /\ UNCHANGED ret
       ELSE /\ PipelineError
            /\ UNCHANGED <<scraping_jobs, batch_idx, bPending>>
  /\ UNCHANGED <<envVars, run, celebrities, job_id, batches, tableAtStart, prevFault,
                 celebrity_mentions>>
  /\ UNCHANGED nonPipelineVars

\* lines 319-332: the job is marked completed and the run returns its totals
FinalUpdate(connOk, updOk) ==
  /\ rPc = "final"
  /\ IF connOk
       THEN /\ scraping_jobs' =
                 IF updOk
                   THEN [scraping_jobs EXCEPT ![job_id] =
                           UpdateScrapingJob(@, "completed", total_mentions,
                                             Len(celebrities) * 20)]
                   ELSE scraping_jobs
            /\ ret' = [total_mentions |-> total_mentions,
                       total_failed_urls |-> total_failed_urls,
                       all_failed_urls |-> all_failed_urls]
            /\ rFault' = (rFault \/ ~updOk)
            /\ rPc' = "returned"
       ELSE /\ PipelineError
            /\ UNCHANGED scraping_jobs
  /\ UNCHANGED <<envVars, run, celebrities, job_id, batches, batch_idx, total_mentions,
                 total_failed_urls, all_failed_urls, bPending, bTotalMentions,
                 bTotalFailed, bAllFailed, lastUnit, tableAtStart, prevFault,
                 celebrity_mentions>>
  /\ UNCHANGED nonPipelineVars

Next ==
  \/ \E connOk \in BOOLEAN, readOk \in BOOLEAN : RunStart(connOk, readOk)
  \/ \E connOk \in BOOLEAN, insertOk \in BOOLEAN, poolOk \in BOOLEAN :
       CreateJob(connOk, insertOk, poolOk)
  \/ \E e \in Entities, fault \in UnitFaults : UnitDone(e, fault)
  \/ \E connOk \in BOOLEAN, updOk \in BOOLEAN, poolOk \in BOOLEAN :
       BatchDone(connOk, updOk, poolOk)
  \/ \E connOk \in BOOLEAN, updOk \in BOOLEAN : FinalUpdate(connOk, updOk)

----------------------------------------------------------------------------
\* Claims about the pipeline (checked under Spec)

\* C3: a run that follows a run in which nothing failed meets the same roster,
\* search results and fetch outcomes, and so delivers again what the store
\* already holds: it adds no row (the table stays as it was when the run began),
\* it returns 0 inserted mentions, and, when none of its own operations fails
\* either, its job ends completed with mentions_found = 0.
C3_RedeliveryIdempotent ==
  (run >= 2 /\ ~prevFault) =>
    /\ celebrity_mentions = tableAtStart
    /\ rPc = "returned" => ret.total_mentions = 0
    /\ (rPc = "returned" /\ ~rFault /\ roster # << >>) =>
         /\ job_id = Len(scraping_jobs)
         /\ job_id >= 2
         /\ scraping_jobs[job_id].status = "completed"
         /\ scraping_jobs[job_id].mentions_found = 0

\* the second of two runs without a failure has returned; the first one had
\* inserted two mentions or more, which the second one met again
C3_Witness ==
  /\ run = 2
  /\ rPc = "returned"
  /\ ~prevFault
  /\ ~rFault
  /\ Len(scraping_jobs) = 2
  /\ scraping_jobs[1].status = "completed"
  /\ scraping_jobs[1].mentions_found >= 2
  /\ scraping_jobs[2].status = "completed"
  /\ \E k \in StoreKeys : celebrity_mentions[k] = 1
  /\ ret.total_mentions = 0

JobForward ==
  { <<"pending", "running">>, <<"running", "completed">>, <<"running", "failed">> }

\* C9: no step removes a job row, and whenever a step changes the status of a
\* job row, the change is pending -> running, running -> completed or
\* running -> failed: a completed or failed job never gets another status and
\* no job goes back to pending or running.
C9_StatusMonotonic ==
  [][ /\ Len(scraping_jobs') >= Len(scraping_jobs)
      /\ \A j \in DOMAIN scraping_jobs :
           scraping_jobs'[j].status # scraping_jobs[j].status =>
             <<scraping_jobs[j].status, scraping_jobs'[j].status>> \in JobForward ]_vars

\* the first run's job is completed and the second run has written the progress
\* of its own job
C9_Witness ==
  /\ Len(scraping_jobs) = 2
  /\ scraping_jobs[1].status = "completed"
  /\ scraping_jobs[1].end_time
  /\ scraping_jobs[2].status = "running"
  /\ scraping_jobs[2].urls_processed > 0

\* C10: when a run has returned, the job it created is completed or failed and
\* has its end_time.
C10_JobFinalized ==
  (rPc = "returned" /\ job_id # 0) =>
    /\ scraping_jobs[job_id].status \in {"completed", "failed"}
    /\ scraping_jobs[job_id].end_time

\* SELECT COUNT(*) FROM celebrity_mentions: the rows of the keys in S
RECURSIVE RowsOf(_, _)
RowsOf(table, S) ==
  IF S = {} THEN 0
  ELSE LET k == CHOOSE x \in S : TRUE
       IN table[k] + RowsOf(table, S \ {k})

\* the rows this run has committed so far
RowsAddedByRun == RowsOf(celebrity_mentions, StoreKeys) - RowsOf(tableAtStart, StoreKeys)

\* C11 (as claimed): the mentions_found counter written to the run's job, and
\* the total the run returns, never exceed the number of rows this run has
\* committed to celebrity_mentions.
C11_CountedOnlyWhenStored ==
  /\ job_id # 0 => scraping_jobs[job_id].mentions_found <= RowsAddedByRun
  /\ rPc = "returned" => ret.total_mentions <= RowsAddedByRun

\* C12 (as claimed): when the insert of a unit's mentions has failed (no
\* connection, the cursor cannot be opened, or the commit failed and was rolled
\* back), the unit is counted with inserted = 0 and skipped = all of its mentions,
\* and the run goes on with the batch.
C12_FailedInsertAllSkipped ==
  lastUnit.fault \in {"conn_fails", "cursor_raises", "commit_fails"} =>
    /\ lastUnit.inserted = 0
    /\ lastUnit.skipped = lastUnit.n
    /\ rPc = "batch"

\* a step of scrape_batch's loop: the future of one entity is consumed
UnitStep ==
  /\ rPc = "batch"
  /\ run' = run
  /\ batch_idx' = batch_idx
  /\ bPending' # bPending

\* C31: when scrape_batch consumes the result of a unit, the unit's mentions
\* are inserted and committed in that same step, before any other unit's result
\* is consumed and before the job row is written: the table grows by exactly
\* the rows the unit's insert reported, unless that insert failed; a failed
\* insert leaves every row of the table in place, and in both cases the other
\* units of the batch remain to be consumed.
C31_CommittedPerUnit ==
  [][ UnitStep =>
        /\ scraping_jobs' = scraping_jobs
        /\ bPending' = bPending \ {lastUnit'.entity}
        /\ \A k \in StoreKeys : celebrity_mentions'[k] >= celebrity_mentions[k]
        /\ lastUnit'.fault = "none" =>
             /\ RowsOf(celebrity_mentions', StoreKeys)
                  - RowsOf(celebrity_mentions, StoreKeys) = lastUnit'.inserted
             /\ lastUnit'.inserted + lastUnit'.skipped = lastUnit'.n
        /\ lastUnit'.fault # "none" => celebrity_mentions' = celebrity_mentions
    ]_vars

\* in a batch of two, the insert of the first unit failed and the two mentions
\* of the second unit are in the table before the job row is written
C31_Witness ==
  /\ rPc = "batch"
  /\ batchSize = 2
  /\ bPending = {}
  /\ rFault
  /\ lastUnit.entity = 2
  /\ lastUnit.fault = "none"
  /\ lastUnit.inserted = 2
  /\ RowsAddedByRun = 2
  /\ scraping_jobs[job_id].mentions_found = 0

\* a step that writes the row of the run's job
JobWrite ==
  /\ job_id # 0
  /\ job_id' = job_id
  /\ scraping_jobs' # scraping_jobs

\* C33: the inserted count of every unit consumed is added to the batch's
\* total (its skipped count is not); the write after a batch sets mentions_found
\* to the run's total so far, which is the total before the batch plus the
\* batch's total; the write that marks the job completed sets mentions_found to
\* the total the run returns.
C33_MentionsFoundCumulative ==
  [][ /\ UnitStep => bTotalMentions' = bTotalMentions + lastUnit'.inserted
      /\ (JobWrite /\ rPc = "batch") =>
           /\ scraping_jobs'[job_id].mentions_found = total_mentions + bTotalMentions
           /\ total_mentions' = total_mentions + bTotalMentions
      /\ (JobWrite /\ rPc = "final") =>
           /\ scraping_jobs'[job_id].status = "completed"
           /\ scraping_jobs'[job_id].mentions_found = total_mentions
           /\ rPc' = "returned"
           /\ ret'.total_mentions = scraping_jobs'[job_id].mentions_found
    ]_vars

\* a run of two batches has written 1 after the first batch (one mention
\* inserted, its duplicate skipped) and 3 with status completed, and returned 3
C33_Witness ==
  /\ rPc = "returned"
  /\ job_id # 0
  /\ batchSize = 1
  /\ scraping_jobs[job_id].status = "completed"
  /\ scraping_jobs[job_id].mentions_found = 3
  /\ ret.total_mentions = 3

\* the URLs of entity e the environment lets through: found by its search and
\* fetched successfully
DeliveredUrls(e) ==
  IF searchEnv[e].p1.kind # "ok" \/ searchEnv[e].p2.kind # "ok" THEN {}
  ELSE { u \in Range(searchEnv[e].p1.urls \o searchEnv[e].p2.urls) :
           fetchEnv[u] \in {"ok_success", "ok_partial"} }

\* C13: in a run that has returned and in which no store operation and no
\* worker process failed, an entity whose search fails, finds nothing, or whose
\* fetches all fail adds no row, and every URL found and fetched for any entity
\* of the roster is stored under that entity; the run's job ends completed.
C13_UnitFailureContained ==
  (rPc = "returned" /\ ~rFault /\ roster # << >>) =>
    /\ \A e \in Range(roster) :
         /\ DeliveredUrls(e) = {} =>
              \A u \in Urls : celebrity_mentions[<<e, u>>] = tableAtStart[<<e, u>>]
         /\ \A u \in DeliveredUrls(e) : celebrity_mentions[<<e, u>>] = 1
    /\ scraping_jobs[job_id].status = "completed"

\* roster of two entities, one per batch: the first entity's search fails, the
\* second entity's mentions are stored
C13_Witness ==
  /\ rPc = "returned"
  /\ ~rFault
  /\ run = 1
  /\ roster = <<1, 2>>
  /\ batchSize = 1
  /\ searchEnv[1].p1.kind = "timeout"
  /\ DeliveredUrls(2) = {"a1", "b"}
  /\ \A u \in Urls : celebrity_mentions[<<1, u>>] = 0
  /\ celebrity_mentions[<<2, "a1">>] = 1
  /\ celebrity_mentions[<<2, "b">>] = 1
  /\ ret.total_mentions = 2

\* C22 (as claimed): a run that created its job and has returned gives the
\* number of rows it committed as total mentions, and as failed URLs the list
\* of every failed URL its units reported, batch after batch, with the length
\* of that list as the count, whatever failed on the way.
C22_SummaryMatchesRun ==
  (rPc = "returned" /\ job_id # 0) =>
    /\ ret.total_mentions = RowsAddedByRun
    /\ ret.all_failed_urls = all_failed_urls \o bAllFailed
    /\ ret.total_failed_urls = Len(ret.all_failed_urls)

\* run_scrape.main, the batch branch (lines 220-244): 0 once
\* scrape_all_celebrities has returned, 1 when an exception reaches main
Main(raised) == IF raised THEN 1 ELSE 0

\* the exit code of `run_scrape.py --batch`: scrape_all_celebrities ends every
\* path with a return, its outer `except Exception` included, so that no
\* exception of the run reaches main
ExitCode == Main(FALSE)

\* the run has ended before it had a job: the store could not be reached, the
\* roster could not be read, or the job row could not be created
RunStartFailed == rPc = "returned" /\ run >= 1 /\ roster # << >> /\ job_id = 0

\* C15 (as claimed): a full-roster run that failed at its start ends with a
\* non-zero exit code, and a run in which nothing failed ends with exit code 0.
C15_StartFailureExitsNonZero ==
  /\ RunStartFailed => ExitCode # 0
  /\ (rPc = "returned" /\ run >= 1 /\ ~rFault) => ExitCode = 0

\* C16: a job row is added only by a run that has read a non-empty roster, and
\* as long as a run has no roster (the read failed or the table is empty) it has
\* no job, no batch, no unit of work in the pool and has stored nothing; such a
\* run ends as soon as the roster was read.
C16_NoJobWithoutRoster ==
  /\ [](celebrities = << >> =>
          /\ job_id = 0
          /\ batches = << >>
          /\ bPending = {}
          /\ lastUnit = NoUnit
          /\ celebrity_mentions = tableAtStart
          /\ rPc \in {"idle", "returned"})
  /\ [][ Len(scraping_jobs') # Len(scraping_jobs) =>
           /\ celebrities # << >>
           /\ celebrities = roster
           /\ job_id = 0
           /\ scraping_jobs' = Append(scraping_jobs, NewJob) ]_vars

\* the first run created its job; the second run could not read the roster and
\* has ended without a job of its own
C16_Witness ==
  /\ run = 2
  /\ rPc = "returned"
  /\ roster # << >>
  /\ celebrities = << >>
  /\ job_id = 0
  /\ Len(scraping_jobs) = 1

----------------------------------------------------------------------------
\* BatchScraper.split_into_batches(celebrities, batch_size), statement by statement

\* a slice that gives nothing when the list ends before i + n
SliceFullOnly(seq, i, n) ==
  IF i + n <= Len(seq) THEN SubSeq(seq, i + 1, i + n) ELSE << >>

\* the python slice seq[i:i + n] for 0 <= i and 0 < n: it ends where the list ends
Slice(seq, i, n) == SubSeq(seq, i + 1, Min(i + n, Len(seq)))

\* a call begins with any list of entities (repetitions allowed, so that order
\* and position matter) and any batch size from 1 on
SplitInit ==
  /\ split_celebrities \in SeqsUpTo(Entities, MaxSplitLen)
  /\ split_batch_size \in 1..MaxSplitSize
  /\ split_i = 0
  /\ split_batches = << >>
  /\ split_pc = "loop"

SplitIdle ==
  /\ split_celebrities = << >>
  /\ split_batch_size = 1
  /\ split_i = 0
  /\ split_batches = << >>
  /\ split_pc = "returned"

\* one iteration of `for i in range(0, len(celebrities), batch_size)`
SplitIterate ==
  /\ split_pc = "loop"
  /\ split_i < Len(split_celebrities)
  /\ split_batches' = Append(split_batches,
                               Slice(split_celebrities, split_i, split_batch_size))
  /\ split_i' = split_i + split_batch_size
  /\ UNCHANGED <<split_celebrities, split_batch_size, split_pc>>
  /\ UNCHANGED nonSplitVars

\* the range is exhausted: return batches
SplitReturn ==
  /\ split_pc = "loop"
  /\ split_i >= Len(split_celebrities)
  /\ split_pc' = "returned"
  /\ UNCHANGED <<split_celebrities, split_batch_size, split_i, split_batches>>
  /\ UNCHANGED nonSplitVars

SplitNext == SplitIterate \/ SplitReturn

\* the lists of a list of lists, one after the other
RECURSIVE Concat(_)
Concat(ss) == IF ss = << >> THEN << >> ELSE Head(ss) \o Concat(Tail(ss))

\* the least k with k * b >= m
LeastCover(m, b) == CHOOSE k \in 0..m : k * b >= m /\ \A j \in 0..(k - 1) : j * b < m

\* C17: when split_into_batches returns, for a list of M entities and a batch
\* size B >= 1: there are exactly ceil(M / B) batches, their concatenation is the
\* list itself (same entities, same order, none lost or repeated), every batch
\* holds at most B entities and at least one, every batch but the last holds
\* exactly B, and the empty list gives no batch. The closed form used by the
\* pipeline model gives the same batches.
C17_SplitPartitions ==
  split_pc = "returned" =>
    /\ Len(split_batches) = LeastCover(Len(split_celebrities), split_batch_size)
    /\ Concat(split_batches) = split_celebrities
    /\ \A k \in 1..Len(split_batches) :
         /\ Len(split_batches[k]) <= split_batch_size
         /\ Len(split_batches[k]) >= 1
         /\ k < Len(split_batches) => Len(split_batches[k]) = split_batch_size
    /\ split_celebrities = << >> => split_batches = << >>
    /\ split_batches = SplitIntoBatches(split_celebrities, split_batch_size)

\* three entities in batches of two: a full batch and a shorter last one
C17_Witness ==
  /\ split_pc = "returned"
  /\ split_celebrities = <<1, 2, 1>>
  /\ split_batch_size = 2
  /\ split_batches = << <<1, 2>>, <<1>> >>

----------------------------------------------------------------------------
\* text_processor.clean_text and the way of its result into a mention.
\* A text is a sequence of characters of four kinds:
\*   "w" a character the allow-list keeps (alphanumeric, CJK, common punctuation)
\*   "x" a character outside the allow-list
\*   " " a space
\*   "m" markup, or text inside an element clean_html discards
\* Confidence scores are in hundredths.

Chars == {"w", "x", " ", "m"}

\* values of the configured floor within the range of a confidence score
Floors == {0, 50, 60, 100}

RECURSIVE LStrip(_)
LStrip(text) == IF text # << >> /\ Head(text) = " " THEN LStrip(Tail(text)) ELSE text

RECURSIVE RStrip(_)
RStrip(text) ==
  IF text # << >> /\ text[Len(text)] = " "
    THEN RStrip(SubSeq(text, 1, Len(text) - 1))
  ELSE text

\* str.strip()
Strip(text) == RStrip(LStrip(text))

\* re.sub(r' +', ' ', text)
RECURSIVE CollapseSpaces(_)
CollapseSpaces(text) ==
  IF Len(text) <= 1 THEN text
  ELSE IF text[1] = " " /\ text[2] = " " THEN CollapseSpaces(Tail(text))
  ELSE << Head(text) >> \o CollapseSpaces(Tail(text))

IsText(c) == c # "m"

IsAllowed(c) == c # "x"

\* TextCleaner.clean_html: "" when neither parser accepts the content, else the
\* text left after markup and discarded elements are gone, stripped
CleanHtml(content, parse) ==
  IF parse = "unparsable" THEN << >> ELSE Strip(SelectSeq(content, IsText))

\* TextCleaner.normalize_whitespace
NormalizeWhitespace(text) == Strip(CollapseSpaces(text))

\* TextCleaner.remove_special_characters(text, preserve_unicode=True)
RemoveSpecialCharacters(text) == SelectSeq(text, IsAllowed)

\* TextCleaner.calculate_confidence_score(original_length, cleaned_length) with
\* the configured floor; extraction_rate >= 0.7 is cleaned * 10 >= 7 * original
CalculateConfidenceScore(original_length, cleaned_length, floor) ==
  IF original_length = 0 THEN floor
  ELSE LET confidence ==
             IF cleaned_length * 10 >= 7 * original_length THEN 95
             ELSE IF cleaned_length * 10 >= 5 * original_length THEN 85
             ELSE IF cleaned_length * 10 >= 3 * original_length THEN 70
             ELSE IF cleaned_length * 10 >= 1 * original_length THEN 50
             ELSE floor
       IN Min(confidence, 100)

\* a status rule that rejects a short text
StatusOfRejectShort(cleaned_length, min_length) ==
  IF cleaned_length < min_length THEN "failed" ELSE "success"

\* clean_text, lines 190-194
StatusOf(cleaned_length, min_length) ==
  IF cleaned_length < min_length THEN "partial" ELSE "success"

\* a content_length taken before the special characters were removed
ContentLengthBeforeRemoval(normalized_text, cleaned_text) == Len(normalized_text)

\* clean_text, line 184: cleaned_length = len(cleaned_text)
ContentLength(normalized_text, cleaned_text) == Len(cleaned_text)

\* clean_text(html_content)
CleanText(content, parse, floor, min_length) ==
  IF parse = "raises"
    THEN [cleaned_text |-> << >>, content_length |-> 0,
          extraction_confidence |-> floor, raw_text_length |-> 0, status |-> "error"]
  ELSE LET raw_text == CleanHtml(content, parse)
           raw_text_length == Len(raw_text)
           normalized_text == NormalizeWhitespace(raw_text)
           cleaned_text == RemoveSpecialCharacters(normalized_text)
           cleaned_length == ContentLength(normalized_text, cleaned_text)
       IN IF raw_text_length = 0
            THEN [cleaned_text |-> << >>, content_length |-> 0,
                  extraction_confidence |-> floor, raw_text_length |-> 0,
                  status |-> "failed"]
          ELSE [cleaned_text |-> cleaned_text, content_length |-> cleaned_length,
                extraction_confidence |->
                  CalculateConfidenceScore(raw_text_length, cleaned_length, floor),
                raw_text_length |-> raw_text_length,
                status |-> StatusOf(cleaned_length, min_length)]

NoClean == [status |-> "none"]

NoFetch == [status |-> "none"]

\* the dict both fetchers build from clean_text's result
\* (crawl4ai_scraper.py 147-154, google_scraper.py 262-269)
FetchedDict(clean_result, elapsed) ==
  [status |-> clean_result.status,
   cleaned_text |-> clean_result.cleaned_text,
   content_length |-> clean_result.content_length,
   extraction_confidence |-> clean_result.extraction_confidence,
   processing_time_ms |-> elapsed]

\* the entry appended to successful_results
\* (crawl4ai_scraper.py 221-228, google_scraper.py 316-323)
SuccessfulResult(url, result) ==
  [original_url |-> url,
   cleaned_text |-> result.cleaned_text,
   content_length |-> result.content_length,
   extraction_confidence |-> result.extraction_confidence,
   processing_time_ms |-> result.processing_time_ms]

\* scrape_celebrity_worker, lines 72-81: the mention built from a result
BuildMention(celebrity_id, result) ==
  [celebrity_id |-> celebrity_id,
   original_url |-> result.original_url,
   cleaned_text |-> result.cleaned_text,
   content_length |-> result.content_length,
   extraction_confidence |-> result.extraction_confidence,
   processing_time_ms |-> result.processing_time_ms]

TextInit ==
  /\ MIN_CONFIDENCE_SCORE \in Floors
  /\ MIN_CONTENT_LENGTH \in 1..MaxMinContentLength
  /\ xPath \in {"crawl4ai", "requests"}
  /\ xHtml \in SeqsUpTo(Chars, MaxTextLen)
  /\ xParse \in {"ok", "unparsable", "raises"}
  /\ xParse # "ok" => (xHtml = << "w" >> /\ MIN_CONTENT_LENGTH = 1)
  /\ xPc = "start"
  /\ xClean = NoClean
  /\ xFetch = NoFetch
  /\ xSucc = << >>
  /\ xFail = << >>
  /\ xMentions = << >>

TextIdle ==
  /\ MIN_CONFIDENCE_SCORE = 50
  /\ MIN_CONTENT_LENGTH = 1
  /\ xPath = "crawl4ai"
  /\ xHtml = << >>
  /\ xParse = "ok"
  /\ xPc = "start"
  /\ xClean = NoClean
  /\ xFetch = NoFetch
  /\ xSucc = << >>
  /\ xFail = << >>
  /\ xMentions = << >>

\* the fetcher has the page: _fetch_single_url (lines 128-154) returns "failed"
\* on empty markdown and otherwise what clean_text gave; fetch_and_parse (lines
\* 256-269) gives response.text to clean_text as it is
FetchPage(elapsed) ==
  /\ xPc = "start"
  /\ IF xPath = "crawl4ai" /\ xHtml = << >>
       THEN /\ xClean' = NoClean
            /\ xFetch' = [status |-> "failed", processing_time_ms |-> elapsed]
       ELSE /\ xClean' = CleanText(xHtml, xParse, MIN_CONFIDENCE_SCORE,
                                    MIN_CONTENT_LENGTH)
            /\ xFetch' = FetchedDict(xClean', elapsed)
  /\ xPc' = "fetched"
  /\ UNCHANGED <<MIN_CONFIDENCE_SCORE, MIN_CONTENT_LENGTH, xPath, xHtml, xParse,
                 xSucc, xFail, xMentions>>
  /\ UNCHANGED nonTextVars

\* the separation of the fetcher's result (crawl4ai_scraper.py 219-234,
\* google_scraper.py 315-329)
SeparatePage ==
  /\ xPc = "fetched"
  /\ IF Classify("b", xFetch.status).succ # << >>
       THEN /\ xSucc' = Append(xSucc, SuccessfulResult("b", xFetch))
            /\ UNCHANGED xFail
       ELSE /\ xFail' = xFail \o Classify("b", xFetch.status).fail
            /\ UNCHANGED xSucc
  /\ xPc' = "separated"
  /\ UNCHANGED <<MIN_CONFIDENCE_SCORE, MIN_CONTENT_LENGTH, xPath, xHtml, xParse,
                 xClean, xFetch, xMentions>>
  /\ UNCHANGED nonTextVars

\* scrape_celebrity_worker, lines 66-83: the worker fetches with Crawl4AIScraper
\* and builds one mention per successful result
BuildMentions(e) ==
  /\ xPc = "separated"
  /\ xPath = "crawl4ai"
  /\ xMentions' = [i \in 1..Len(xSucc) |-> BuildMention(e, xSucc[i])]
  /\ xPc' = "built"
  /\ UNCHANGED <<MIN_CONFIDENCE_SCORE, MIN_CONTENT_LENGTH, xPath, xHtml, xParse,
                 xClean, xFetch, xSucc, xFail>>
  /\ UNCHANGED nonTextVars

TextNext ==
  \/ \E elapsed \in 0..MaxElapsedMs : FetchPage(elapsed)
  \/ SeparatePage
  \/ \E e \in Entities : BuildMentions(e)

\* C18 (as claimed): for every configured floor, the confidence clean_text gave
\* to a text with a preservation ratio r (cleaned length / raw length) is at
\* most the confidence of every greater ratio and at least the confidence of
\* every smaller one.
C18_ConfidenceMonotone ==
  xClean.status \in {"success", "partial"} =>
    \A o \in 1..MaxTextLen, c \in 0..MaxTextLen :
      LET mine == xClean.extraction_confidence
          other == CalculateConfidenceScore(o, c, MIN_CONFIDENCE_SCORE)
      IN /\ xClean.content_length * o < c * xClean.raw_text_length => mine <= other
         /\ c * xClean.raw_text_length < xClean.content_length * o => other <= mine

\* what the record of a mention promises about a result or a mention r
WellFormed(r) ==
  /\ r.extraction_confidence \in 0..100
  /\ r.processing_time_ms >= 0
  /\ r.content_length = Len(r.cleaned_text)

C20_StatusRule ==
  /\ (xClean.status # "none" /\ xParse # "raises") =>
       LET raw == CleanHtml(xHtml, xParse)
           cleaned == RemoveSpecialCharacters(NormalizeWhitespace(raw))
       IN /\ Len(raw) = 0 =>
               /\ xClean.status = "failed"
               /\ xClean.extraction_confidence = MIN_CONFIDENCE_SCORE
               /\ xClean.cleaned_text = << >>
          /\ (Len(raw) > 0 /\ Len(cleaned) < MIN_CONTENT_LENGTH) =>
               /\ xClean.status = "partial"
               /\ xClean.cleaned_text = cleaned
          /\ (Len(raw) > 0 /\ Len(cleaned) >= MIN_CONTENT_LENGTH) =>
               /\ xClean.status = "success"
               /\ xClean.cleaned_text = cleaned
  /\ (xPc \in {"separated", "built"} /\ xClean.status = "partial") =>
       /\ Len(xSucc) = 1
       /\ xSucc[1].cleaned_text = xClean.cleaned_text
       /\ xFail = << >>
  /\ (xPc \in {"separated", "built"} /\ xClean.status \in {"failed", "error"}) =>
       /\ xSucc = << >>
       /\ Len(xFail) = 1
  /\ (xPc = "built" /\ xClean.status = "partial") =>
       /\ Len(xMentions) = 1
       /\ xMentions[1].cleaned_text = xClean.cleaned_text

\* a text of one kept character under a minimum length of two: partial, in the
\* successes and built into a mention
C20_Witness ==
  /\ xPc = "built"
  /\ MIN_CONTENT_LENGTH = 2
  /\ xHtml = << "m", " ", "w", " " >>
  /\ xClean.status = "partial"
  /\ xClean.raw_text_length = 1
  /\ xClean.extraction_confidence = 95
  /\ xFail = << >>
  /\ Len(xMentions) = 1
  /\ xMentions[1].cleaned_text = << "w" >>

----------------------------------------------------------------------------
\* TextCleaner.clean_html on a document with structure. A document is the
\* sequence of its elements that hold a text node, each with the kind of the
\* element and its text:
\*   "script" an element of REMOVE_TAGS (script, style, noscript, iframe, ...)
\*   "nav"    an element matching the selectors nav, .nav, #nav
\*   "footer" an element matching one of the other selectors of the list
\*            (footer, .header, #header, .sidebar, .advertisement, .ad, ...)
\*   "p"      any other element
\* "c1" and "c2" are two CJK ideographs, "a" an ASCII letter, "x" a character
\* outside the allow-list.

ElementKinds == {"script", "nav", "footer", "p"}

NodeTexts == { << >>, << "c1" >>, << "c2", "c1" >>, << "a" >>, << "x", "c2" >> }

Nodes == [kind : ElementKinds, text : NodeTexts]

\* clean_html, lines 44-52: the elements decomposed before the text is taken
Decomposed(node) == node.kind \in {"script", "nav", "footer"}

\* soup.get_text(separator=' ', strip=True): the non-empty stripped strings of
\* the elements left, joined by one space
RECURSIVE GetText(_)
GetText(doc) ==
  IF doc = << >> THEN << >>
  ELSE LET rest == GetText(Tail(doc))
           own == IF Decomposed(Head(doc)) THEN << >> ELSE Strip(Head(doc).text)
       IN IF own = << >> THEN rest
          ELSE IF rest = << >> THEN own
          ELSE own \o << " " >> \o rest

HtmlInit ==
  /\ hDoc \in SeqsUpTo(Nodes, MaxNodes)
  /\ hPc = "start"
  /\ hText = << >>

HtmlIdle ==
  /\ hDoc = << >>
  /\ hPc = "start"
  /\ hText = << >>

\* clean_text, lines 166-184, on a document both parsers accept
ExtractText ==
  /\ hPc = "start"
  /\ hText' = RemoveSpecialCharacters(NormalizeWhitespace(GetText(hDoc)))
  /\ hPc' = "extracted"
  /\ UNCHANGED hDoc
  /\ UNCHANGED nonHtmlVars

HtmlNext == ExtractText

IsCjk(c) == c \in {"c1", "c2"}

\* the CJK characters of the text nodes of doc in elements of a kind outside
\* `excluded`, in document order
RECURSIVE CjkOutside(_, _)
CjkOutside(doc, excluded) ==
  IF doc = << >> THEN << >>
  ELSE (IF Head(doc).kind \in excluded THEN << >>
        ELSE SelectSeq(Head(doc).text, IsCjk)) \o CjkOutside(Tail(doc), excluded)

\* C21 (as claimed): the cleaned text holds, in order, every CJK character of
\* the text nodes outside script and navigation elements, and when every text
\* node outside script elements is empty the cleaned text is empty.
C21_CjkRetained ==
  hPc = "extracted" =>
    /\ SelectSeq(hText, IsCjk) = CjkOutside(hDoc, {"script", "nav"})
    /\ (\A i \in 1..Len(hDoc) : hDoc[i].kind # "script" => hDoc[i].text = << >>)
         => hText = << >>

----------------------------------------------------------------------------
\* Crawl4AIScraper.scrape_urls_async, the coroutines of one call counted.
\* _init_crawler builds a MemoryAdaptiveDispatcher(max_session_permit=20) and
\* hands it to the AsyncWebCrawler constructor; the fetches are then made with
\* crawler.arun(url), one coroutine per URL, all given to asyncio.gather.
\* A dispatcher is what calls arun for the URLs of an arun_many call; arun
\* itself takes no permit from it, and no semaphore or queue of this
\* repository stands between gather and arun.

GatherInit ==
  /\ gUrls \in 0..MaxGatherUrls
  /\ gCreated = gUrls
  /\ gInFlight = 0
  /\ gDone = 0

GatherIdle ==
  /\ gUrls = 0
  /\ gCreated = 0
  /\ gInFlight = 0
  /\ gDone = 0

\* lines 206-213: gather schedules every coroutine; the event loop runs one of
\* them up to its `await crawler.arun(...)` (line 102)
FetchBegins ==
  /\ gCreated > 0
  /\ gCreated' = gCreated - 1
  /\ gInFlight' = gInFlight + 1
  /\ UNCHANGED <<gUrls, gDone>>
  /\ UNCHANGED nonGatherVars

\* a coroutine's fetch is over (after its last attempt) and it returns its dict
FetchEnds ==
  /\ gInFlight > 0
  /\ gInFlight' = gInFlight - 1
  /\ gDone' = gDone + 1
  /\ UNCHANGED <<gUrls, gCreated>>
  /\ UNCHANGED nonGatherVars

GatherNext == FetchBegins \/ FetchEnds

\* C23 (as claimed): at no moment of a scrape_urls_async call are more than
\* max_session_permit fetches in flight, whatever the length of the URL list.
C23_InFlightBounded == gInFlight <= max_session_permit

----------------------------------------------------------------------------
\* BatchScraper.scrape_batch: the pool of worker processes. A
\* ProcessPoolExecutor(max_workers=n) keeps at most n worker processes, each of
\* which runs one submitted call at a time; submitted calls wait in its queue.

PoolEntities == 1..MaxPoolBatch

\* a pool that starts a process for every submitted call
WorkerAvailableAlways(tasks, n) == TRUE

\* line 135, ProcessPoolExecutor(max_workers=self.worker_count): a worker
\* process is free to take a call from the queue
WorkerAvailable(tasks, n) ==
  Cardinality({ e \in DOMAIN tasks : tasks[e] = "running" }) < n

PoolInit ==
  /\ worker_count \in 1..MaxWorkers
  /\ \E n \in 0..MaxPoolBatch : pBatch = [i \in 1..n |-> i]
  /\ pNext = 1
  /\ pSubmits = [e \in PoolEntities |-> 0]
  /\ pTask = [e \in PoolEntities |-> "new"]

PoolIdle ==
  /\ worker_count = 1
  /\ pBatch = << >>
  /\ pNext = 1
  /\ pSubmits = [e \in PoolEntities |-> 0]
  /\ pTask = [e \in PoolEntities |-> "new"]

\* lines 137-140: executor.submit(scrape_celebrity_worker, celeb) for the next
\* celeb of the batch
SubmitUnit ==
  /\ pNext <= Len(pBatch)
  /\ pSubmits' = [pSubmits EXCEPT ![pBatch[pNext]] = @ + 1]
  /\ pTask' = [pTask EXCEPT ![pBatch[pNext]] = "queued"]
  /\ pNext' = pNext + 1
  /\ UNCHANGED <<worker_count, pBatch>>
  /\ UNCHANGED nonPoolVars

\* a free worker process takes a queued call and runs scrape_celebrity_worker
UnitStarts(e) ==
  /\ pTask[e] = "queued"
  /\ WorkerAvailable(pTask, worker_count)
  /\ pTask' = [pTask EXCEPT ![e] = "running"]
  /\ UNCHANGED <<worker_count, pBatch, pNext, pSubmits>>
  /\ UNCHANGED nonPoolVars

\* scrape_celebrity_worker returns (it catches its own exceptions) or its
\* process ends: the future is complete
UnitEnds(e) ==
  /\ pTask[e] = "running"
  /\ pTask' = [pTask EXCEPT ![e] = "done"]
  /\ UNCHANGED <<worker_count, pBatch, pNext, pSubmits>>
  /\ UNCHANGED nonPoolVars

\* lines 144-172: as_completed yields a complete future once every call was
\* submitted, and the loop body consumes it
UnitConsumed(e) ==
  /\ pNext > Len(pBatch)
  /\ pTask[e] = "done"
  /\ pTask' = [pTask EXCEPT ![e] = "consumed"]
  /\ UNCHANGED <<worker_count, pBatch, pNext, pSubmits>>
  /\ UNCHANGED nonPoolVars

PoolNext ==
  \/ SubmitUnit
  \/ \E e \in PoolEntities : UnitStarts(e)
  \/ \E e \in PoolEntities : UnitEnds(e)
  \/ \E e \in PoolEntities : UnitConsumed(e)

\* C24: at every moment at most worker_count units are running; no entity is
\* ever submitted twice, an entity outside the batch is never submitted, and
\* once the submission is over every entity of the batch has been submitted
\* exactly once; only a submitted unit runs, completes or is consumed.
C24_OneUnitPerEntityBounded ==
  /\ Cardinality({ e \in PoolEntities : pTask[e] = "running" }) <= worker_count
  /\ \A e \in PoolEntities :
       /\ pSubmits[e] <= 1
       /\ e \notin Range(pBatch) => pSubmits[e] = 0
       /\ pTask[e] # "new" <=> pSubmits[e] = 1
  /\ pNext > Len(pBatch) => \A e \in Range(pBatch) : pSubmits[e] = 1

\* three entities and two workers: two units run while the third waits in the
\* queue
C24_Witness ==
  /\ Len(pBatch) = 3
  /\ worker_count = 2
  /\ pNext = 4
  /\ Cardinality({ e \in PoolEntities : pTask[e] = "running" }) = 2
  /\ \E e \in PoolEntities : pTask[e] = "queued"

----------------------------------------------------------------------------
\* GoogleSearcher.search_google, request by request, when both requests succeed
\* (the failures of a request are in SearchGoogleBody)

Queries == {"q1", "q2"}

\* the links of the items of one page; a body without 'items' gives none
PageItemLists == SeqsUpTo({"a1", "b"}, MaxPageItems)

NoParams == [q |-> "", num |-> 0, start |-> 0]

PagesInit ==
  /\ qQuery \in Queries
  /\ qCap \in 1..MaxResultCap
  /\ qPc = "start"
  /\ qParams = NoParams
  /\ qRequests = << >>
  /\ qLocalUrls = << >>
  /\ qResult = << >>

PagesIdle ==
  /\ qQuery = "q1"
  /\ qCap = 1
  /\ qPc = "start"
  /\ qParams = NoParams
  /\ qRequests = << >>
  /\ qLocalUrls = << >>
  /\ qResult = << >>

\* lines 107-133: params with start 1, the first request, urls from its items
FirstPage(items) ==
  /\ qPc = "start"
  /\ qParams' = [q |-> qQuery, num |-> 10, start |-> 1]
  /\ qRequests' = Append(qRequests, [params |-> qParams', items |-> items])
  /\ qLocalUrls' = items
  /\ qPc' = "page1"
  /\ UNCHANGED <<qQuery, qCap, qResult>>
  /\ UNCHANGED nonPagesVars

\* lines 135-146: params['start'] = 11, the second request, urls.extend
SecondPage(items) ==
  /\ qPc = "page1"
  /\ qParams' = [qParams EXCEPT !.start = 11]
  /\ qRequests' = Append(qRequests, [params |-> qParams', items |-> items])
  /\ qLocalUrls' = qLocalUrls \o items
  /\ qPc' = "page2"
  /\ UNCHANGED <<qQuery, qCap, qResult>>
  /\ UNCHANGED nonPagesVars

\* line 153: return urls[:SCRAPER_RESULTS_PER_CELEBRITY]
ReturnUrls ==
  /\ qPc = "page2"
  /\ qResult' = Take(qLocalUrls, qCap)
  /\ qPc' = "returned"
  /\ UNCHANGED <<qQuery, qCap, qParams, qRequests, qLocalUrls>>
  /\ UNCHANGED nonPagesVars

PagesNext ==
  \/ \E items \in PageItemLists : FirstPage(items)
  \/ \E items \in PageItemLists : SecondPage(items)
  \/ ReturnUrls

\* C25: a search that returns has sent exactly two requests, for the same
\* query with page size 10, the first with start 1 and the second with start
\* 11; what it returns is the links of the first page followed by those of the
\* second, in the order received and with repetitions kept, cut after the
\* first qCap of them.
C25_PagesConcatenatedAndCapped ==
  /\ Len(qRequests) <= 2
  /\ \A i \in 1..Len(qRequests) :
       qRequests[i].params = [q |-> qQuery, num |-> 10, start |-> 10 * (i - 1) + 1]
  /\ qPc = "returned" =>
       LET all == qRequests[1].items \o qRequests[2].items
       IN /\ Len(qRequests) = 2
          /\ Len(qResult) = Min(Len(all), qCap)
          /\ \A i \in 1..Len(qResult) : qResult[i] = all[i]

\* both pages hold the same two links and the cap is three: the result is cut
\* in the second page and holds a link twice
C25_Witness ==
  /\ qPc = "returned"
  /\ qCap = 3
  /\ qRequests[1].items = << "a1", "b" >>
  /\ qRequests[2].items = << "a1", "b" >>
  /\ qResult = << "a1", "b", "a1" >>

----------------------------------------------------------------------------
\* The retry loops: exponential_backoff.wrapper around search_google and around
\* fetch_and_parse, and the recursion of _fetch_single_url. One operation on
\* one query or URL, attempt by attempt; delays are fractions of a second.

RECURSIVE Pow(_, _)
Pow(b, k) == IF k = 0 THEN 1 ELSE b * Pow(b, k - 1)

\* a delay that doubles with every attempt
WrapperDelayDoubling(attempt) ==
  [num |-> SCRAPER_BACKOFF_FACTOR_NUM * Pow(2, attempt - 1),
   den |-> SCRAPER_BACKOFF_FACTOR_DEN]

\* exponential_backoff, line 42:
\* SCRAPER_BACKOFF_FACTOR * (SCRAPER_BACKOFF_FACTOR ** (attempt - 1))
WrapperDelay(attempt) ==
  [num |-> SCRAPER_BACKOFF_FACTOR_NUM * Pow(SCRAPER_BACKOFF_FACTOR_NUM, attempt - 1),
   den |-> SCRAPER_BACKOFF_FACTOR_DEN * Pow(SCRAPER_BACKOFF_FACTOR_DEN, attempt - 1)]

\* _fetch_single_url, lines 115 and 162: the same expression
FetchDelay(attempt) ==
  [num |-> SCRAPER_BACKOFF_FACTOR_NUM * Pow(SCRAPER_BACKOFF_FACTOR_NUM, attempt - 1),
   den |-> SCRAPER_BACKOFF_FACTOR_DEN * Pow(SCRAPER_BACKOFF_FACTOR_DEN, attempt - 1)]

\* what one attempt can meet, per path. For crawl4ai a failed crawl with an
\* error message is a network error or an HTTP error status; the code sees
\* `not result.success` and result.error_message in both cases.
RetryOutcomes(path) ==
  CASE path = "search" -> {"ok", "timeout", "conn_error", "http_error", "error_payload"}
    [] path = "requests" ->
         {"ok_success", "invalid_content_type", "timeout", "request_exception",
          "exception"}
    [] path = "crawl4ai" ->
         {"ok_success", "ok_failed", "empty", "crawl_failed_network",
          "crawl_failed_http", "crawl_failed", "timeout", "exception"}

\* the outcome as _fetch_single_url can tell it
CrawlOutcomeSeen(o) ==
  IF o \in {"crawl_failed_network", "crawl_failed_http"} THEN "crawl_failed_msg" ELSE o

\* a fetcher that gives up at the first timeout
RetryStepNoTimeoutRetry(path, attempt, o) ==
  IF path = "crawl4ai" /\ o = "timeout"
    THEN [next |-> "returned", result |-> "timeout"]
  ELSE IF path = "crawl4ai"
    THEN LET st == FetchSingleUrl(attempt, CrawlOutcomeSeen(o))
         IN IF st = "retry" THEN [next |-> "retry", result |-> "none"]
            ELSE [next |-> "returned", result |-> st]
  ELSE [next |-> "returned", result |-> "none"]

\* one attempt on outcome o: the loop goes on ("retry", after a sleep), the
\* operation returns, or the wrapper raises
RetryStep(path, attempt, o) ==
  IF path = "crawl4ai"
    THEN LET st == FetchSingleUrl(attempt, CrawlOutcomeSeen(o))
         IN IF st = "retry" THEN [next |-> "retry", result |-> "none"]
            ELSE [next |-> "returned", result |-> st]
  ELSE LET r == IF path = "requests"
                  THEN [status |-> "return", exc |-> "none", value |-> FetchAndParse(o)]
                ELSE IF o = "ok"
                  THEN [status |-> "return", exc |-> "none", value |-> "ok"]
                ELSE [status |-> "raise", exc |-> o, value |-> "none"]
           d == BackoffDecision(attempt, r, FALSE)
       IN CASE d = "return" -> [next |-> "returned", result |-> r.value]
            [] d = "retry"  -> [next |-> "retry", result |-> "none"]
            [] OTHER        -> [next |-> "raised", result |-> r.exc]

RetryInit ==
  /\ tPath \in {"search", "requests", "crawl4ai"}
  /\ tPc = "attempt"
  /\ tAttempt = 1
  /\ tTrace = << >>
  /\ tSleeps = << >>
  /\ tResult = "none"

RetryIdle ==
  /\ tPath = "search"
  /\ tPc = "returned"
  /\ tAttempt = 1
  /\ tTrace = << >>
  /\ tSleeps = << >>
  /\ tResult = "none"

\* the attempt is made and meets o; on "retry" the delay is slept first
RetryAttempt(o) ==
  /\ tPc = "attempt"
  /\ o \in RetryOutcomes(tPath)
  /\ LET step == RetryStep(tPath, tAttempt, o)
     IN /\ tTrace' = Append(tTrace, o)
        /\ IF step.next = "retry"
             THEN /\ tSleeps' = Append(tSleeps,
                                        IF tPath = "crawl4ai" THEN FetchDelay(tAttempt)
                                        ELSE WrapperDelay(tAttempt))
                  /\ tAttempt' = tAttempt + 1
                  /\ UNCHANGED <<tPc, tResult>>
             ELSE /\ tPc' = step.next
                  /\ tResult' = step.result
                  /\ UNCHANGED <<tSleeps, tAttempt>>
  /\ UNCHANGED tPath
  /\ UNCHANGED nonRetryVars

AllOutcomes ==
  RetryOutcomes("search") \cup RetryOutcomes("requests") \cup RetryOutcomes("crawl4ai")

RetryNext == \E o \in AllOutcomes : RetryAttempt(o)

\* C26: in _fetch_single_url an attempt that times out before the last one is
\* followed, after the backoff delay, by a further attempt on the same URL; the
\* fetch never makes more than SCRAPER_MAX_RETRIES attempts; a URL that timed
\* out on every attempt is returned with status "timeout" after exactly
\* SCRAPER_MAX_RETRIES attempts, and status "timeout" is returned in no other
\* case; the timeout is always returned as a dict and never raised to the caller.
C26_TimeoutRetried ==
  tPath = "crawl4ai" =>
    /\ Len(tTrace) <= SCRAPER_MAX_RETRIES
    /\ tPc # "raised"
    /\ \A a \in 1..Len(tTrace) :
         (tTrace[a] = "timeout" /\ a < SCRAPER_MAX_RETRIES) =>
           /\ tAttempt > a
           /\ Len(tSleeps) >= a
           /\ tSleeps[a] = FetchDelay(a)
           /\ (Len(tTrace) = a => tPc = "attempt")
    /\ (tPc = "returned" /\ \A a \in 1..Len(tTrace) : tTrace[a] = "timeout") =>
         /\ Len(tTrace) = SCRAPER_MAX_RETRIES
         /\ tResult = "timeout"
    /\ (tPc = "returned" /\ tResult = "timeout") =>
         /\ Len(tTrace) = SCRAPER_MAX_RETRIES
         /\ tTrace[SCRAPER_MAX_RETRIES] = "timeout"

\* a URL that timed out on every attempt has been returned
C26_Witness ==
  /\ tPath = "crawl4ai"
  /\ tPc = "returned"
  /\ tResult = "timeout"
  /\ Len(tTrace) = SCRAPER_MAX_RETRIES
  /\ \A a \in 1..Len(tTrace) : tTrace[a] = "timeout"

\* C27: the delay slept after failed attempt a is 1/2^a seconds (backoff factor
\* 1/2 times itself to the power a-1), so successive delays strictly decrease;
\* a delay is slept only after an attempt before the last one, never after the
\* final attempt; the wrapper of the search and the fetcher compute the same
\* delay for every attempt.
C27_BackoffDelays ==
  /\ Len(tSleeps) <= SCRAPER_MAX_RETRIES - 1
  /\ Len(tSleeps) = IF tPc = "attempt" THEN Len(tTrace) ELSE Len(tTrace) - 1
  /\ \A a \in 1..Len(tSleeps) : tSleeps[a].num * Pow(2, a) = tSleeps[a].den
  /\ \A a \in 1..(Len(tSleeps) - 1) :
       tSleeps[a + 1].num * tSleeps[a].den < tSleeps[a].num * tSleeps[a + 1].den
  /\ \A a \in 1..SCRAPER_MAX_RETRIES : WrapperDelay(a) = FetchDelay(a)

\* a search has failed on every attempt and slept twice
C27_Witness ==
  /\ tPath = "search"
  /\ tPc = "raised"
  /\ Len(tTrace) = SCRAPER_MAX_RETRIES
  /\ Len(tSleeps) = SCRAPER_MAX_RETRIES - 1

\* C29: in _fetch_single_url an attempt that meets a non-transient failure (an
\* HTTP error status, rejected or empty content) is the only attempt made: the
\* fetch returns "failed" at once; only a network error or a timeout is followed
\* by a further attempt.
C29_NonTransientNotRetried ==
  tPath = "crawl4ai" =>
    \A a \in 1..Len(tTrace) :
      /\ tTrace[a] \in {"crawl_failed_http", "crawl_failed", "empty", "ok_failed"} =>
           /\ a = 1
           /\ Len(tTrace) = 1
           /\ tPc = "returned"
           /\ tResult = "failed"
      /\ tAttempt > a => tTrace[a] \in {"crawl_failed_network", "timeout"}

\* C30: under the exponential_backoff wrapper, fetch_and_parse makes a further
\* attempt after a request that timed out or met a network error, so that it
\* reports a URL as "timeout" or "failed" for such a cause only once
\* SCRAPER_MAX_RETRIES attempts have been made.
C30_SyncFetchRetried ==
  tPath = "requests" =>
    \A a \in 1..Len(tTrace) :
      tTrace[a] \in {"timeout", "request_exception"} =>
        /\ a < SCRAPER_MAX_RETRIES => tAttempt > a
        /\ (tPc = "returned" /\ tResult \in {"timeout", "failed"}) =>
             Len(tTrace) = SCRAPER_MAX_RETRIES

----------------------------------------------------------------------------
\* The progress of a job: the urls_processed values scrape_all_celebrities
\* passes to update_scraping_job, for a roster of uCelebrities entities in
\* batches of CELEBRITIES_PER_BATCH

\* the literal 20 of lines 315 and 326: URLs per celebrity
UrlsPerCelebrity == 20

ProgressInit ==
  /\ uCelebrities \in 1..MaxProgressRoster
  /\ CELEBRITIES_PER_BATCH \in 1..MaxProgressBatch
  /\ uBatchIdx = 0
  /\ uPc = "batches"
  /\ uWrites = << >>

ProgressIdle ==
  /\ uCelebrities = 1
  /\ CELEBRITIES_PER_BATCH = 1
  /\ uBatchIdx = 0
  /\ uPc = "returned"
  /\ uWrites = << >>

\* lines 301-317: the next batch has been scraped and the progress is written,
\* urls_processed = batch_idx * CELEBRITIES_PER_BATCH * 20; an UPDATE that fails
\* writes nothing and the run goes on
ProgressUpdate(updOk) ==
  /\ uPc = "batches"
  /\ uBatchIdx < CeilDiv(uCelebrities, CELEBRITIES_PER_BATCH)
  /\ uBatchIdx' = uBatchIdx + 1
  /\ uWrites' = IF updOk
                  THEN Append(uWrites, uBatchIdx' * CELEBRITIES_PER_BATCH * UrlsPerCelebrity)
                ELSE uWrites
  /\ uPc' = IF uBatchIdx' = CeilDiv(uCelebrities, CELEBRITIES_PER_BATCH)
              THEN "final" ELSE "batches"
  /\ UNCHANGED <<uCelebrities, CELEBRITIES_PER_BATCH>>
  /\ UNCHANGED nonProgressVars

\* lines 319-332: status completed, urls_processed = len(celebrities) * 20
CompletedUpdate(updOk) ==
  /\ uPc = "final"
  /\ uWrites' = IF updOk THEN Append(uWrites, uCelebrities * UrlsPerCelebrity)
                ELSE uWrites
  /\ uPc' = "returned"
  /\ UNCHANGED <<uCelebrities, CELEBRITIES_PER_BATCH, uBatchIdx>>
  /\ UNCHANGED nonProgressVars

ProgressNext ==
  \/ \E updOk \in BOOLEAN : ProgressUpdate(updOk)
  \/ \E updOk \in BOOLEAN : CompletedUpdate(updOk)

\* C34: the urls_processed values written to the job of a run never decrease
\* from one write to the next, whatever the roster size and the batch size.
C34_UrlsProcessedMonotone ==
  \A i \in 1..(Len(uWrites) - 1) : uWrites[i] <= uWrites[i + 1]

----------------------------------------------------------------------------
\* The searches of a run's units: every call of scrape_celebrity_worker builds
\* its own GoogleSearcher and makes one search with it

UnitsInit ==
  /\ kKeys \in 1..MaxKeys
  /\ kUnits = 0
  /\ kPc = "idle"
  /\ kIndex = 0
  /\ kAttempt = 0
  /\ kResult = "none"
  /\ kStarts = [k \in 0..(kKeys - 1) |-> 0]

UnitsIdle ==
  /\ kKeys = 1
  /\ kUnits = 0
  /\ kPc = "idle"
  /\ kIndex = 0
  /\ kAttempt = 0
  /\ kResult = "none"
  /\ kStarts = [k \in 0..0 |-> 0]

\* scrape_celebrity_worker, lines 43-48: searcher = GoogleSearcher() sets
\* current_key_index = 0 (google_scraper.py 56-63), then search_google(name)
\* begins and its first request reads api_keys[current_key_index]
UnitSearchBegins ==
  /\ kPc = "idle"
  /\ kUnits < MaxUnits
  /\ kUnits' = kUnits + 1
  /\ kIndex' = 0
  /\ kAttempt' = 1
  /\ kResult' = "none"
  /\ kStarts' = [kStarts EXCEPT ![kIndex'] = @ + 1]
  /\ kPc' = "search"
  /\ UNCHANGED kKeys
  /\ UNCHANGED nonUnitsVars

\* one attempt of that search under the wrapper
UnitSearchAttempt(o, jsonRetry) ==
  /\ kPc = "search"
  /\ LET r == SearchGoogleBody(o, kIndex, kKeys)
         d == BackoffDecision(kAttempt, r, jsonRetry)
     IN /\ kIndex' = r.index
        /\ kAttempt' = IF d = "retry" THEN kAttempt + 1 ELSE kAttempt
        /\ kPc' = IF d = "retry" THEN "search" ELSE "idle"
        /\ kResult' = CASE d = "return" -> "ok"
                         [] d = "retry"  -> kResult
                         [] OTHER        -> r.exc
  /\ UNCHANGED <<kKeys, kUnits, kStarts>>
  /\ UNCHANGED nonUnitsVars

UnitsNext ==
  \/ UnitSearchBegins
  \/ \E o \in AttemptOutcomes, jsonRetry \in BOOLEAN : UnitSearchAttempt(o, jsonRetry)

\* C35: with at least two credential pairs, once two or more units have begun
\* their search, the units' first requests have not all read the same pair, and
\* no pair has been read by the first request of more than ceil(N/K) of the N
\* units.
C35_SearchLoadSpread ==
  (kKeys >= 2 /\ kUnits >= 2) =>
    /\ \A k \in DOMAIN kStarts : kStarts[k] < kUnits
    /\ \A k \in DOMAIN kStarts : kStarts[k] <= CeilDiv(kUnits, kKeys)

----------------------------------------------------------------------------
\* scrape_celebrity_worker (scraping_pipeline.py 20-101), stage by stage, on
\* whatever its search and its fetch give it, for the entities of one batch, and
\* what scrape_batch collects of its failed URLs

\* what searcher.search_google(name) hands to the worker
WorkerSearchResults ==
  [status : {"returned"}, exc : {"none"}, urls : SeqsUpTo(FetchUrls, MaxFetch)]
    \cup [status : {"raised"}, exc : PageFailKinds, urls : {NoUrls}]

NoWorkerFetch == [succ |-> << >>, fail |-> << >>]

NoWorkerReturn ==
  [celebrity_id |-> 0, mentions |-> << >>, failed_urls |-> << >>, error |-> "pending"]

\* lines 94-101: the outer `except Exception` of the worker
WorkerError(celebrity_id) ==
  [celebrity_id |-> celebrity_id, mentions |-> << >>, failed_urls |-> << >>,
   error |-> "Worker error"]

WorkerInit ==
  /\ cEntity = 0
  /\ cPc = "idle"
  /\ cUrls = NoUrls
  /\ cFetch = NoWorkerFetch
  /\ cRet = NoWorkerReturn
  /\ cPending = Entities
  /\ cTotalFailed = 0
  /\ cAllFailed = << >>

WorkerIdle ==
  /\ cEntity = 0
  /\ cPc = "idle"
  /\ cUrls = NoUrls
  /\ cFetch = NoWorkerFetch
  /\ cRet = NoWorkerReturn
  /\ cPending = {}
  /\ cTotalFailed = 0
  /\ cAllFailed = << >>

\* lines 37-44: the arguments are read and GoogleSearcher() is built; an
\* exception here goes to the outer handler
WorkerBegins(e, searcherOk) ==
  /\ cPc = "idle"
  /\ e \in cPending
  /\ cEntity' = e
  /\ cUrls' = NoUrls
  /\ cFetch' = NoWorkerFetch
  /\ IF searcherOk
       THEN /\ cPc' = "search"
            /\ cRet' = NoWorkerReturn
       ELSE /\ cPc' = "returned"
            /\ cRet' = WorkerError(e)
  /\ UNCHANGED <<cPending, cTotalFailed, cAllFailed>>
  /\ UNCHANGED nonWorkerVars

\* lines 46-64: the search and the inner try/except around it
WorkerSearches(res) ==
  /\ cPc = "search"
  /\ LET h == WorkerSearchHandler(res)
     IN IF h.escaped
          THEN /\ cPc' = "raised"
               /\ UNCHANGED <<cUrls, cRet>>
        ELSE IF h.proceed
          THEN /\ cPc' = "fetch"
               /\ cUrls' = h.urls
               /\ UNCHANGED cRet
        ELSE /\ cPc' = "returned"
             /\ cRet' = [celebrity_id |-> cEntity, mentions |-> h.mentions,
                         failed_urls |-> h.failed_urls, error |-> h.error]
             /\ UNCHANGED cUrls
  /\ UNCHANGED <<cEntity, cFetch, cPending, cTotalFailed, cAllFailed>>
  /\ UNCHANGED nonWorkerVars

\* lines 66-68: Crawl4AIScraper().scrape_urls(urls); when it raises (the crawler
\* cannot be built, the event loop cannot run it) the outer handler returns
WorkerFetches(fenv, scraperOk) ==
  /\ cPc = "fetch"
  /\ IF scraperOk
       THEN /\ cFetch' = ScrapeUrls(cUrls, fenv)
            /\ cPc' = "build"
            /\ UNCHANGED cRet
       ELSE /\ cPc' = "returned"
            /\ cRet' = WorkerError(cEntity)
            /\ UNCHANGED cFetch
  /\ UNCHANGED <<cEntity, cUrls, cPending, cTotalFailed, cAllFailed>>
  /\ UNCHANGED nonWorkerVars

\* lines 70-92: one mention per successful result, then the return
WorkerReturns ==
  /\ cPc = "build"
  /\ cRet' = [celebrity_id |-> cEntity,
              mentions |-> [i \in 1..Len(cFetch.succ) |->
                              [celebrity_id |-> cEntity,
                               original_url |-> cFetch.succ[i].original_url]],
              failed_urls |-> cFetch.fail,
              error |-> "none"]
  /\ cPc' = "returned"
  /\ UNCHANGED <<cEntity, cUrls, cFetch, cPending, cTotalFailed, cAllFailed>>
  /\ UNCHANGED nonWorkerVars

\* scrape_batch, lines 149-168: the worker's result is taken from its future
\* and its failed URLs are counted and collected
BatchCollects ==
  /\ cPc = "returned"
  /\ cPending' = cPending \ {cEntity}
  /\ IF cRet.failed_urls # << >>
       THEN /\ cTotalFailed' = cTotalFailed + Len(cRet.failed_urls)
            /\ cAllFailed' = cAllFailed \o cRet.failed_urls
       ELSE UNCHANGED <<cTotalFailed, cAllFailed>>
  /\ cPc' = "idle"
  /\ UNCHANGED <<cEntity, cUrls, cFetch, cRet>>
  /\ UNCHANGED nonWorkerVars

WorkerNext ==
  \/ \E e \in Entities, searcherOk \in BOOLEAN : WorkerBegins(e, searcherOk)
  \/ BatchCollects
  \/ \E res \in WorkerSearchResults : WorkerSearches(res)
  \/ \E fenv \in [FetchUrls -> CrawlOutcomes], scraperOk \in BOOLEAN :
       WorkerFetches(fenv, scraperOk)
  \/ WorkerReturns

\* C37: a call of scrape_celebrity_worker never ends in an exception; what it
\* returns names the unit's celebrity_id and has mentions, failed_urls and
\* error; whenever error is set (the search failed, found nothing, or the worker
\* failed elsewhere) mentions and failed_urls are both empty.
C37_WorkerNeverRaises ==
  /\ cPc # "raised"
  /\ (cPc = "returned" \/ (cPc = "idle" /\ cEntity # 0)) =>
       /\ DOMAIN cRet = {"celebrity_id", "mentions", "failed_urls", "error"}
       /\ cRet.celebrity_id = cEntity
       /\ cRet.error \in {"none", "Google search failed", "No search results found",
                           "Worker error"}
       /\ cRet.error # "none" =>
            /\ cRet.mentions = << >>
            /\ cRet.failed_urls = << >>

\* the fetch stage raised after the search had found two URLs
C37_Witness ==
  /\ cPc = "returned"
  /\ Len(cUrls) = 2
  /\ cRet.error = "Worker error"

\* the worker of cEntity has returned (its result may have been collected)
WorkerReturned == cPc = "returned" \/ (cPc = "idle" /\ cEntity # 0)

\* C38 (as claimed): when the search returned n >= 1 URLs, the worker's result
\* has len(mentions) + len(failed_urls) = n; the failed-URL count of the batch
\* is the length of its failed-URL list.
C38_EveryUrlAccounted ==
  /\ (WorkerReturned /\ Len(cUrls) >= 1) =>
       Len(cRet.mentions) + Len(cRet.failed_urls) = Len(cUrls)
  /\ cTotalFailed = Len(cAllFailed)

\* C38 (amended): when the search returned n >= 1 URLs and the worker returns
\* without error, its result has len(mentions) + len(failed_urls) = n, and the
\* mentions are, one for one and in order, the successful fetches of the unit:
\* each carries the unit's celebrity_id and the URL of its fetch, and no URL is
\* both in a mention and in failed_urls more often than the search returned it.
C38_EveryUrlAccountedWithoutError ==
  /\ (WorkerReturned /\ Len(cUrls) >= 1 /\ cRet.error = "none") =>
       /\ Len(cRet.mentions) + Len(cRet.failed_urls) = Len(cUrls)
       /\ Len(cRet.mentions) = Len(cFetch.succ)
       /\ \A i \in 1..Len(cRet.mentions) :
            /\ cRet.mentions[i].celebrity_id = cEntity
            /\ cRet.mentions[i].original_url = cFetch.succ[i].original_url
       /\ \A u \in FetchUrls :
            CountIn([i \in 1..Len(cRet.mentions) |-> cRet.mentions[i].original_url], u)
              + CountIn([i \in 1..Len(cRet.failed_urls) |-> cRet.failed_urls[i].url], u)
              = CountIn(cUrls, u)
  /\ cTotalFailed = Len(cAllFailed)

\* of two URLs found, one became a mention and the other a failed URL
C38_Witness ==
  /\ cPc = "returned"
  /\ cRet.error = "none"
  /\ Len(cUrls) = 2
  /\ Len(cRet.mentions) = 1
  /\ Len(cRet.failed_urls) = 1
  /\ cTotalFailed = 2

----------------------------------------------------------------------------
\* The connections of a run: every DatabaseHandler.get_connection() of
\* scrape_all_celebrities and of _batch_insert_mentions, and the
\* close_connection that gives the connection back to the pool

ConnInit ==
  /\ nRun = 0
  /\ nPc = "idle"
  /\ nBatches = 0
  /\ nUnits = 0
  /\ nAcquired = 0
  /\ nReleased = 0

ConnIdle == ConnInit

\* scrape_all_celebrities, lines 272-284: get_connection (raising goes to the
\* outer except), get_all_celebrities (a failing SELECT returns []),
\* close_connection, and the return on an empty roster
ConnRunStart(connOk, readOk, rosterEmpty) ==
  /\ nPc \in {"idle", "returned"}
  /\ nRun < MaxRuns
  /\ nRun' = nRun + 1
  /\ nBatches' = 0
  /\ nUnits' = 0
  /\ IF connOk
       THEN /\ nAcquired' = nAcquired + 1
            /\ nReleased' = nReleased + 1
            /\ nPc' = IF readOk /\ ~rosterEmpty THEN "job" ELSE "returned"
       ELSE /\ nPc' = "returned"
            /\ UNCHANGED <<nAcquired, nReleased>>
  /\ UNCHANGED nonConnVars

\* lines 286-304: get_connection, get_scraping_job_id (which raises when its
\* INSERT fails, database_handler.py 255-257), close_connection; then the
\* roster is split into b batches and the first one, with u units that have
\* mentions, is scraped
ConnCreateJob(connOk, insertOk, b, u) ==
  /\ nPc = "job"
  /\ IF connOk /\ insertOk
       THEN /\ nAcquired' = nAcquired + 1
            /\ nReleased' = nReleased + 1
            /\ nBatches' = b
            /\ nUnits' = u
            /\ nPc' = "batch"
       ELSE /\ nAcquired' = IF connOk THEN nAcquired + 1 ELSE nAcquired
            /\ nPc' = "returned"
            /\ UNCHANGED <<nReleased, nBatches, nUnits>>
  /\ UNCHANGED nRun
  /\ UNCHANGED nonConnVars

\* _batch_insert_mentions, lines 223-243, for one unit: get_connection,
\* batch_insert_mentions, close_connection; when the insert raises the handler
\* closes the connection
ConnInsert(connOk, fault) ==
  /\ nPc = "batch"
  /\ nUnits > 0
  /\ nUnits' = nUnits - 1
  /\ IF connOk
       THEN /\ nAcquired' = nAcquired + 1
            /\ nReleased' = nReleased + 1
       ELSE /\ fault = "none"
            /\ UNCHANGED <<nAcquired, nReleased>>
  /\ UNCHANGED <<nRun, nPc, nBatches>>
  /\ UNCHANGED nonConnVars

\* lines 309-317: get_connection, update_scraping_job (a failing UPDATE returns
\* False), close_connection; then the next batch with u units that have mentions
ConnBatchUpdate(connOk, updOk, u) ==
  /\ nPc = "batch"
  /\ nUnits = 0
  /\ IF connOk
       THEN /\ nAcquired' = nAcquired + 1
            /\ nReleased' = nReleased + 1
            /\ nBatches' = nBatches - 1
            /\ IF nBatches' = 0
                 THEN /\ nPc' = "final"
                      /\ nUnits' = 0
                 ELSE /\ nPc' = "batch"
                      /\ nUnits' = u
       ELSE /\ nPc' = "returned"
            /\ UNCHANGED <<nAcquired, nReleased, nBatches, nUnits>>
  /\ UNCHANGED nRun
  /\ UNCHANGED nonConnVars

\* lines 319-332: get_connection, update_scraping_job(status="completed"),
\* close_connection, return
ConnFinalUpdate(connOk, updOk) ==
  /\ nPc = "final"
  /\ IF connOk
       THEN /\ nAcquired' = nAcquired + 1
            /\ nReleased' = nReleased + 1
       ELSE UNCHANGED <<nAcquired, nReleased>>
  /\ nPc' = "returned"
  /\ UNCHANGED <<nRun, nBatches, nUnits>>
  /\ UNCHANGED nonConnVars

ConnNext ==
  \/ \E connOk \in BOOLEAN, readOk \in BOOLEAN, rosterEmpty \in BOOLEAN :
       ConnRunStart(connOk, readOk, rosterEmpty)
  \/ \E connOk \in BOOLEAN, insertOk \in BOOLEAN, b \in 1..MaxConnBatches,
        u \in 0..MaxBatchSize : ConnCreateJob(connOk, insertOk, b, u)
  \/ \E connOk \in BOOLEAN, fault \in StoreFaults : ConnInsert(connOk, fault)
  \/ \E connOk \in BOOLEAN, updOk \in BOOLEAN, u \in 0..MaxBatchSize :
       ConnBatchUpdate(connOk, updOk, u)
  \/ \E connOk \in BOOLEAN, updOk \in BOOLEAN : ConnFinalUpdate(connOk, updOk)

\* C39: when a run has returned, every connection it took from the pool has
\* been given back.
C39_ConnectionsReleased ==
  nPc = "returned" => nReleased = nAcquired

----------------------------------------------------------------------------
\* Further claims about the store (checked under SpecStore)

\* C32: within one batch_insert_mentions call, a row that meets a duplicate key
\* is counted as skipped and changes nothing else: the call stays in its loop
\* (nothing raised), the rows its transaction already holds stay in it, and a
\* later row without a conflict (and without another store error) is inserted
\* into the same transaction; nothing reaches the table before the end of the
\* loop, and the one commit at the end makes the table equal to the
\* transaction, adding exactly the rows counted as inserted.
C32_DuplicateSkipsRowOnly ==
  [][ /\ (iPc = "rows" /\ iPc' = "rows") =>
           LET m == lastRow'.mention
           IN /\ celebrity_mentions' = celebrity_mentions
              /\ UniqueConflict(iTxn, m) =>
                   /\ lastRow'.disp = "duplicate"
                   /\ iTxn' = iTxn
                   /\ iCount'.skipped = iCount.skipped + 1
                   /\ iCount'.inserted = iCount.inserted
              /\ (~UniqueConflict(iTxn, m) /\ lastRow'.disp # "error") =>
                   /\ lastRow'.disp = "inserted"
                   /\ iTxn' = [iTxn EXCEPT ![KeyOf(m)] = @ + 1]
                   /\ iCount'.inserted = iCount.inserted + 1
                   /\ iCount'.skipped = iCount.skipped
      /\ (iPc = "rows" /\ iPc' = "idle" /\ lastInsert'.committed) =>
           /\ ~lastInsert'.raised
           /\ celebrity_mentions' = iTxn
           /\ RowsOf(celebrity_mentions', StoreKeys)
                - RowsOf(celebrity_mentions, StoreKeys) = lastInsert'.inserted
           /\ lastInsert'.inserted = iCount.inserted
           /\ lastInsert'.skipped = iCount.skipped
    ]_vars

\* a call has inserted a row and then met a duplicate: it is still in its loop,
\* with the inserted row in its transaction
C32_Witness ==
  /\ iPc = "rows"
  /\ iCount.n = 2
  /\ iCount.inserted = 1
  /\ iCount.skipped = 1
  /\ lastRow.disp = "duplicate"
  /\ RowsOf(iTxn, StoreKeys) = RowsOf(celebrity_mentions, StoreKeys) + 1

\* C36: when batch_insert_mentions returns, inserted + skipped is the number of
\* mentions it was given and inserted is the number of rows the call has added
\* to the table, whether or not its commit succeeded.
C36_InsertCountsExact ==
  [][ (iPc = "rows" /\ iPc' = "idle") =>
        /\ lastInsert'.inserted + lastInsert'.skipped = lastInsert'.n
        /\ lastInsert'.inserted =
             RowsOf(celebrity_mentions', StoreKeys) - RowsOf(celebrity_mentions, StoreKeys)
    ]_vars

----------------------------------------------------------------------------
\* The specifications

SearchIdle ==
  /\ numKeys = 1
  /\ jsonErrRetryable = FALSE
  /\ current_key_index = 0
  /\ sPc = "idle"
  /\ sAttempt = 0
  /\ sTrace = << >>
  /\ sStartIndex = 0
  /\ sAttemptIndex = 0
  /\ sSleeps = << >>
  /\ sResult = NoResult
  /\ sCalls = 0
  /\ selected = [k \in {0} |-> 0]
  /\ wResult = NoWorkerResult

InitSearch == SearchInit /\ FetchIdle /\ StoreInit /\ PipelineIdle /\ SplitIdle /\ TextIdle /\ HtmlIdle /\ GatherIdle /\ PoolIdle /\ PagesIdle /\ RetryIdle /\ ProgressIdle /\ UnitsIdle /\ WorkerIdle /\ ConnIdle

SpecSearch == InitSearch /\ [][SearchNext]_vars

InitFetch == FetchInit /\ SearchIdle /\ StoreInit /\ PipelineIdle /\ SplitIdle /\ TextIdle /\ HtmlIdle /\ GatherIdle /\ PoolIdle /\ PagesIdle /\ RetryIdle /\ ProgressIdle /\ UnitsIdle /\ WorkerIdle /\ ConnIdle

SpecFetch == InitFetch /\ [][FetchNext]_vars

InitStore == StoreInit /\ SearchIdle /\ FetchIdle /\ PipelineIdle /\ SplitIdle /\ TextIdle /\ HtmlIdle /\ GatherIdle /\ PoolIdle /\ PagesIdle /\ RetryIdle /\ ProgressIdle /\ UnitsIdle /\ WorkerIdle /\ ConnIdle

SpecStore == InitStore /\ [][StoreNext]_vars

Init == PipelineInit /\ SearchIdle /\ FetchIdle /\ StoreInit /\ SplitIdle /\ TextIdle /\ HtmlIdle /\ GatherIdle /\ PoolIdle /\ PagesIdle /\ RetryIdle /\ ProgressIdle /\ UnitsIdle /\ WorkerIdle /\ ConnIdle

Spec == Init /\ [][Next]_vars

InitSplit == SplitInit /\ SearchIdle /\ FetchIdle /\ StoreInit /\ PipelineIdle /\ TextIdle /\ HtmlIdle /\ GatherIdle /\ PoolIdle /\ PagesIdle /\ RetryIdle /\ ProgressIdle /\ UnitsIdle /\ WorkerIdle /\ ConnIdle

SpecSplit == InitSplit /\ [][SplitNext]_vars

InitText ==
  TextInit /\ SearchIdle /\ FetchIdle /\ StoreInit /\ PipelineIdle /\ SplitIdle /\ HtmlIdle /\ GatherIdle /\ PoolIdle /\ PagesIdle /\ RetryIdle /\ ProgressIdle /\ UnitsIdle /\ WorkerIdle /\ ConnIdle

SpecText == InitText /\ [][TextNext]_vars

InitHtml ==
  HtmlInit /\ SearchIdle /\ FetchIdle /\ StoreInit /\ PipelineIdle /\ SplitIdle /\ TextIdle /\ GatherIdle /\ PoolIdle /\ PagesIdle /\ RetryIdle /\ ProgressIdle /\ UnitsIdle /\ WorkerIdle /\ ConnIdle

SpecHtml == InitHtml /\ [][HtmlNext]_vars

InitGather ==
  /\ GatherInit /\ SearchIdle /\ FetchIdle /\ StoreInit /\ PipelineIdle /\ PoolIdle /\ PagesIdle /\ RetryIdle /\ ProgressIdle /\ UnitsIdle /\ WorkerIdle /\ ConnIdle
  /\ SplitIdle /\ TextIdle /\ HtmlIdle

SpecGather == InitGather /\ [][GatherNext]_vars

InitPool ==
  /\ PoolInit /\ SearchIdle /\ FetchIdle /\ StoreInit /\ PipelineIdle /\ PagesIdle /\ RetryIdle /\ ProgressIdle /\ UnitsIdle /\ WorkerIdle /\ ConnIdle
  /\ SplitIdle /\ TextIdle /\ HtmlIdle /\ GatherIdle

SpecPool == InitPool /\ [][PoolNext]_vars

InitPages ==
  /\ PagesInit /\ SearchIdle /\ FetchIdle /\ StoreInit /\ PipelineIdle /\ RetryIdle /\ ProgressIdle /\ UnitsIdle /\ WorkerIdle /\ ConnIdle
  /\ SplitIdle /\ TextIdle /\ HtmlIdle /\ GatherIdle /\ PoolIdle

SpecPages == InitPages /\ [][PagesNext]_vars

InitRetry ==
  /\ RetryInit /\ SearchIdle /\ FetchIdle /\ StoreInit /\ PipelineIdle /\ ProgressIdle /\ UnitsIdle /\ WorkerIdle /\ ConnIdle
  /\ SplitIdle /\ TextIdle /\ HtmlIdle /\ GatherIdle /\ PoolIdle /\ PagesIdle

SpecRetry == InitRetry /\ [][RetryNext]_vars

InitProgress ==
  /\ ProgressInit /\ SearchIdle /\ FetchIdle /\ StoreInit /\ PipelineIdle /\ UnitsIdle /\ WorkerIdle /\ ConnIdle
  /\ SplitIdle /\ TextIdle /\ HtmlIdle /\ GatherIdle /\ PoolIdle /\ PagesIdle
  /\ RetryIdle

SpecProgress == InitProgress /\ [][ProgressNext]_vars

InitUnits ==
  /\ UnitsInit /\ SearchIdle /\ FetchIdle /\ StoreInit /\ PipelineIdle /\ WorkerIdle /\ ConnIdle
  /\ SplitIdle /\ TextIdle /\ HtmlIdle /\ GatherIdle /\ PoolIdle /\ PagesIdle
  /\ RetryIdle /\ ProgressIdle

SpecUnits == InitUnits /\ [][UnitsNext]_vars

InitWorker ==
  /\ WorkerInit /\ SearchIdle /\ FetchIdle /\ StoreInit /\ PipelineIdle /\ ConnIdle
  /\ SplitIdle /\ TextIdle /\ HtmlIdle /\ GatherIdle /\ PoolIdle /\ PagesIdle
  /\ RetryIdle /\ ProgressIdle /\ UnitsIdle

SpecWorker == InitWorker /\ [][WorkerNext]_vars

InitConn ==
  /\ ConnInit /\ SearchIdle /\ FetchIdle /\ StoreInit /\ PipelineIdle
  /\ SplitIdle /\ TextIdle /\ HtmlIdle /\ GatherIdle /\ PoolIdle /\ PagesIdle
  /\ RetryIdle /\ ProgressIdle /\ UnitsIdle /\ WorkerIdle

SpecConn == InitConn /\ [][ConnNext]_vars

====
